---- MODULE Spec2Model ----
(***************************************************************************)
(* Verification model of zoog: the Ogg header rewrite driver               *)
(* (header_rewriter.rs), the comment tool (bin/zoogcomment.rs with         *)
(* output_file.rs), the gain tool's per-file rewrite section               *)
(* (bin/opusgain.rs) and the delayed console output (console_output.rs).   *)
(*                                                                         *)
(* Packet payloads are byte sequences (Seq(0..255)); headers are parsed    *)
(* and serialized byte by byte as the code does.                           *)
(***************************************************************************)
EXTENDS Integers, Sequences, FiniteSets, TLC

(***************************************************************************)
(* Bounds of the model.                                                    *)
(***************************************************************************)
\* largest number of packets read from one input file
MaxPackets == 4
\* number of input files (tasks) given to the gain tool
NumFiles == 2
\* largest number of write/flush operations one task issues on its console
MaxOps == 4

(***************************************************************************)
(* Bytes and little-endian integers (byteorder::LittleEndian).             *)
(***************************************************************************)
U32LE(n) ==
    << n % 256, (n \div 256) % 256, (n \div 65536) % 256, (n \div 16777216) % 256 >>

\* the u32 read at 0-based offset off of d (the caller checks off + 4 <= Len(d))
U32At(d, off) ==
    d[off + 1] + 256 * d[off + 2] + 65536 * d[off + 3] + 16777216 * d[off + 4]

\* data.iter().take(magic.len()).eq(magic.iter())
HasMagic(data, magic) ==
    /\ Len(data) >= Len(magic)
    /\ SubSeq(data, 1, Len(magic)) = magic

IsCont(b) == b >= 128 /\ b <= 191

\* String::from_utf8: is the byte sequence well-formed UTF-8
RECURSIVE IsUtf8(_)
IsUtf8(b) ==
    IF Len(b) = 0 THEN TRUE
    ELSE LET h == b[1]
             n == Len(b)
         IN  IF h < 128 THEN IsUtf8(SubSeq(b, 2, n))
             ELSE IF h >= 194 /\ h <= 223
                  THEN n >= 2 /\ IsCont(b[2]) /\ IsUtf8(SubSeq(b, 3, n))
             ELSE IF h >= 224 /\ h <= 239
                  THEN /\ n >= 3
                       /\ IsCont(b[2]) /\ IsCont(b[3])
                       /\ (h = 224 => b[2] >= 160)
                       /\ (h = 237 => b[2] <= 159)
                       /\ IsUtf8(SubSeq(b, 4, n))
             ELSE IF h >= 240 /\ h <= 244
                  THEN /\ n >= 4
                       /\ IsCont(b[2]) /\ IsCont(b[3]) /\ IsCont(b[4])
                       /\ (h = 240 => b[2] >= 144)
                       /\ (h = 244 => b[2] <= 143)
                       /\ IsUtf8(SubSeq(b, 5, n))
             ELSE FALSE

(***************************************************************************)
(* Magic signatures and sizes.                                             *)
(***************************************************************************)
\* b"OpusHead"
OPUS_MAGIC == << 79, 112, 117, 115, 72, 101, 97, 100 >>
OPUS_MIN_HEADER_SIZE == 19
\* b"OpusTags"
OPUS_COMMENT_MAGIC == << 79, 112, 117, 115, 84, 97, 103, 115 >>
\* b"\x01vorbis"
VORBIS_MAGIC == << 1, 118, 111, 114, 98, 105, 115 >>
VORBIS_MIN_HEADER_SIZE == 30
\* b"\x03vorbis"
VORBIS_COMMENT_MAGIC == << 3, 118, 111, 114, 98, 105, 115 >>
FRAMING_BYTE == 1
\* b'='
FIELD_NAME_TERMINATOR == 61

Ok(v) == [err |-> "none", val |-> v]
Err(e) == [err |-> e, val |-> << >>]

(***************************************************************************)
(* Comment lists: sequences of <<key, value>> pairs of byte strings.       *)
(***************************************************************************)
ToAsciiUpper(c) == IF c >= 97 /\ c <= 122 THEN c - 32 ELSE c

UpperStr(s) == [i \in 1..Len(s) |-> ToAsciiUpper(s[i])]

\* variant: keys are compared byte for byte
keys_equal_exact(k1, k2) == k1 = k2
\* str::eq_ignore_ascii_case
keys_equal(k1, k2) == UpperStr(k1) = UpperStr(k2)

\* variant: every printable character up to '~' is accepted
validate_comment_field_name_printable(name) ==
    \A i \in 1..Len(name) : name[i] >= 32 /\ name[i] <= 126

\* ' '..='<' | '>'..='}'
validate_comment_field_name(name) ==
    \A i \in 1..Len(name) :
        \/ (name[i] >= 32 /\ name[i] <= 60)
        \/ (name[i] >= 62 /\ name[i] <= 125)

\* variant: the last FIELD_NAME_TERMINATOR in c is taken
FindLastTerminator(c) ==
    IF \E i \in 1..Len(c) : c[i] = FIELD_NAME_TERMINATOR
    THEN CHOOSE i \in 1..Len(c) :
            /\ c[i] = FIELD_NAME_TERMINATOR
            /\ \A j \in (i + 1)..Len(c) : c[j] # FIELD_NAME_TERMINATOR
    ELSE 0

\* 1-based index of the first FIELD_NAME_TERMINATOR in c, 0 if there is none
FindTerminator(c) ==
    IF \E i \in 1..Len(c) : c[i] = FIELD_NAME_TERMINATOR
    THEN CHOOSE i \in 1..Len(c) :
            /\ c[i] = FIELD_NAME_TERMINATOR
            /\ \A j \in 1..(i - 1) : c[j] # FIELD_NAME_TERMINATOR
    ELSE 0

parse_comment(c) ==
    LET check(key, value) ==
            IF ~validate_comment_field_name(key)
            THEN Err("InvalidOpusCommentFieldName")
            ELSE Ok(<< key, value >>)
        split_at(offset) ==
            IF offset = 0 THEN Err("MissingCommentSeparator")
            ELSE check(SubSeq(c, 1, offset - 1), SubSeq(c, offset + 1, Len(c)))
    IN  split_at(FindTerminator(c))

\* variant: the key is not validated
PushUnchecked(list, key, value) == Ok(Append(list, << key, value >>))

\* DiscreteCommentList::push: validates the key, appends
Push(list, key, value) ==
    IF ~validate_comment_field_name(key)
    THEN Err("InvalidOpusCommentFieldName")
    ELSE Ok(Append(list, << key, value >>))

\* CommentList::extend: push every mapping, stop at the first error
RECURSIVE Extend(_, _)
Extend(list, comments) ==
    LET next(r) ==
            IF r.err # "none" THEN r
            ELSE Extend(r.val, SubSeq(comments, 2, Len(comments)))
    IN  IF Len(comments) = 0 THEN Ok(list)
        ELSE next(Push(list, comments[1][1], comments[1][2]))

\* DiscreteCommentList::get_first
get_first(list, key) ==
    LET first(found) ==
            IF Len(found) = 0 THEN << "none" >> ELSE << "some", found[1][2] >>
    IN  first(SelectSeq(list, LAMBDA e : keys_equal(e[1], key)))

\* DiscreteCommentList::remove_all
remove_all(list, key) == SelectSeq(list, LAMBDA e : ~keys_equal(key, e[1]))

\* variant: later mappings of the key are kept
RECURSIVE retain_mut_keep_later(_, _, _, _)
retain_mut_keep_later(list, key, value, found) ==
    IF Len(list) = 0 THEN << >>
    ELSE IF keys_equal(list[1][1], key) /\ ~found
         THEN << << list[1][1], value >> >> \o retain_mut_keep_later(Tail(list), key, value, TRUE)
    ELSE << list[1] >> \o retain_mut_keep_later(Tail(list), key, value, found)

\* the retain_mut of DiscreteCommentList::replace, `found` as on entry
RECURSIVE retain_mut(_, _, _, _)
retain_mut(list, key, value, found) ==
    IF Len(list) = 0 THEN << >>
    ELSE IF keys_equal(list[1][1], key)
         THEN IF found
              THEN retain_mut(Tail(list), key, value, TRUE)
              ELSE << << list[1][1], value >> >> \o retain_mut(Tail(list), key, value, TRUE)
    ELSE << list[1] >> \o retain_mut(Tail(list), key, value, found)

\* DiscreteCommentList::replace
replace(list, key, value) ==
    IF \E i \in 1..Len(list) : keys_equal(list[i][1], key)
    THEN Ok(retain_mut(list, key, value, FALSE))
    ELSE Push(retain_mut(list, key, value, FALSE), key, value)


(***************************************************************************)
(* Identification headers.  try_parse gives Ok(<<"some", header>>),        *)
(* Ok(<<"none">>) when the packet is not of the codec, or an error.        *)
(***************************************************************************)
\* opus::IdHeader::version / num_output_channels
OpusVersion(data) == data[9]
OpusChannels(data) == data[10]
\* get_output_gain reads the field as a little-endian i16
OpusOutputGain(data) ==
    IF data[18] >= 128 THEN data[17] + 256 * data[18] - 65536
    ELSE data[17] + 256 * data[18]

\* variant: the i16 written big-endian
set_output_gain_big_endian(data, gain) ==
    [data EXCEPT ![17] = (gain \div 256) % 256, ![18] = gain % 256]

\* opus::IdHeader::set_output_gain: writes the i16, little-endian
set_output_gain(data, gain) ==
    [data EXCEPT ![17] = gain % 256, ![18] = (gain \div 256) % 256]

OpusIdTryParse(data) ==
    IF Len(data) < OPUS_MIN_HEADER_SIZE THEN Ok(<< "none" >>)
    ELSE IF ~HasMagic(data, OPUS_MAGIC) THEN Ok(<< "none" >>)
    ELSE IF OpusVersion(data) # 1 THEN Err("UnsupportedCodecVersion")
    ELSE IF OpusChannels(data) = 0 THEN Err("MalformedIdentificationHeader")
    ELSE Ok(<< "some", data >>)

VorbisVersion(data) == U32At(data, 7)
VorbisChannels(data) == data[12]
VorbisSampleRate(data) == U32At(data, 12)

\* `invalid` starts false and is only ever and-ed, so it stays false
VorbisIdInvalid(data) ==
    LET i0 == FALSE
        i1 == i0 /\ (VorbisChannels(data) = 0)
        i2 == i1 /\ (VorbisSampleRate(data) = 0)
        i3 == i2 /\ (data[30] % 2 # 0)
    IN  i3

VorbisIdTryParse(data) ==
    IF Len(data) < VORBIS_MIN_HEADER_SIZE THEN Ok(<< "none" >>)
    ELSE IF ~HasMagic(data, VORBIS_MAGIC) THEN Ok(<< "none" >>)
    ELSE IF VorbisVersion(data) # 0 THEN Err("UnsupportedCodecVersion")
    ELSE IF VorbisIdInvalid(data) THEN Err("MalformedIdentificationHeader")
    ELSE Ok(<< "some", data >>)

(***************************************************************************)
(* Comment headers: CommentHeaderGeneric<S> with the Opus and Vorbis       *)
(* specifics.  A parsed header is [vendor, user_comments, suffix_data].    *)
(***************************************************************************)
\* the loop of try_parse: n comments read from d starting at 0-based offset off
RECURSIVE ReadComments(_, _, _, _)
ReadComments(d, off, n, acc) ==
    LET push_parsed(kv, next_off) ==
            IF kv.err # "none" THEN kv
            ELSE LET next(pushed) ==
                         IF pushed.err # "none" THEN pushed
                         ELSE ReadComments(d, next_off, n - 1, pushed.val)
                 IN  next(Push(acc, kv.val[1], kv.val[2]))
        decode(comment, next_off) ==
            IF ~IsUtf8(comment) THEN Err("UTF8Error")
            ELSE push_parsed(parse_comment(comment), next_off)
        read_comment(comment_len) ==
            IF off + 4 + comment_len > Len(d) THEN Err("MalformedCommentHeader")
            ELSE decode(SubSeq(d, off + 5, off + 4 + comment_len), off + 4 + comment_len)
    IN  IF n = 0 THEN Ok(<< acc, off >>)
        ELSE IF off + 4 > Len(d) THEN Err("MalformedCommentHeader")
        ELSE read_comment(U32At(d, off))

\* variant: whatever follows the comments is discarded
OpusReadSuffixDiscard(rest) == Ok(<< >>)

\* variant: whatever follows the comments is kept
OpusReadSuffixKeepAll(rest) == Ok(rest)

\* opus Specifics::read_suffix: the tail is kept iff its first byte has LSB 1
OpusReadSuffix(rest) ==
    IF Len(rest) >= 1 /\ rest[1] % 2 # 0 THEN Ok(rest) ELSE Ok(<< >>)

\* variant: any byte is taken as the framing byte
VorbisReadSuffixAnyByte(rest) ==
    IF Len(rest) < 1 THEN Err("MalformedCommentHeader") ELSE Ok(<< >>)

\* vorbis Specifics::read_suffix: one framing byte with LSB 1 is required
VorbisReadSuffix(rest) ==
    IF Len(rest) < 1 \/ rest[1] % 2 = 0 THEN Err("MalformedCommentHeader")
    ELSE Ok(<< >>)

ReadSuffix(codec, rest) ==
    IF codec = "Opus" THEN OpusReadSuffix(rest) ELSE VorbisReadSuffix(rest)

\* Specifics::write_suffix
WriteSuffix(codec, suffix_data) ==
    IF codec = "Opus" THEN suffix_data ELSE << FRAMING_BYTE >>

CommentMagic(codec) ==
    IF codec = "Opus" THEN OPUS_COMMENT_MAGIC ELSE VORBIS_COMMENT_MAGIC

\* CommentHeaderGeneric::try_parse
CommentTryParse(codec, data) ==
    LET finish(vendor, user_comments, suffix) ==
            IF suffix.err # "none" THEN suffix
            ELSE Ok([vendor |-> vendor,
                     user_comments |-> user_comments,
                     suffix_data |-> suffix.val])
        read_suffix(d, vendor, read) ==
            IF read.err # "none" THEN read
            ELSE finish(vendor, read.val[1],
                        ReadSuffix(codec, SubSeq(d, read.val[2] + 1, Len(d))))
        read_comments(d, vendor, off) ==
            IF ~IsUtf8(vendor) THEN Err("UTF8Error")
            ELSE IF off + 4 > Len(d) THEN Err("MalformedCommentHeader")
            ELSE read_suffix(d, vendor, ReadComments(d, off + 4, U32At(d, off), << >>))
        read_vendor(d, vendor_len) ==
            IF 4 + vendor_len > Len(d) THEN Err("MalformedCommentHeader")
            ELSE read_comments(d, SubSeq(d, 5, 4 + vendor_len), 4 + vendor_len)
        read_body(d) ==
            IF 4 > Len(d) THEN Err("MalformedCommentHeader")
            ELSE read_vendor(d, U32At(d, 0))
    IN  IF ~HasMagic(data, CommentMagic(codec)) THEN Err("MalformedCommentHeader")
        ELSE read_body(SubSeq(data, Len(CommentMagic(codec)) + 1, Len(data)))

RECURSIVE SerializeComments(_)
SerializeComments(list) ==
    IF Len(list) = 0 THEN << >>
    ELSE U32LE(Len(list[1][1]) + Len(list[1][2]) + 1)
            \o list[1][1] \o << FIELD_NAME_TERMINATOR >> \o list[1][2]
            \o SerializeComments(SubSeq(list, 2, Len(list)))

\* CommentHeaderGeneric::into_vec / serialize_into
CommentSerialize(codec, h) ==
    CommentMagic(codec)
        \o U32LE(Len(h.vendor)) \o h.vendor
        \o U32LE(Len(h.user_comments))
        \o SerializeComments(h.user_comments)
        \o WriteSuffix(codec, h.suffix_data)

(***************************************************************************)
(* CodecHeaders: [codec, id, comment].                                     *)
(***************************************************************************)
\* variant: an identification header that one codec rejects is offered to
\* the next codec
parse_codec_headers_falling_through(identification, comment) ==
    IF OpusIdTryParse(identification).err = "none"
           /\ OpusIdTryParse(identification).val[1] = "some"
    THEN IF CommentTryParse("Opus", comment).err # "none"
         THEN CommentTryParse("Opus", comment)
         ELSE Ok([codec |-> "Opus", id |-> identification,
                  comment |-> CommentTryParse("Opus", comment).val])
    ELSE IF VorbisIdTryParse(identification).err = "none"
               /\ VorbisIdTryParse(identification).val[1] = "some"
    THEN IF CommentTryParse("Vorbis", comment).err # "none"
         THEN CommentTryParse("Vorbis", comment)
         ELSE Ok([codec |-> "Vorbis", id |-> identification,
                  comment |-> CommentTryParse("Vorbis", comment).val])
    ELSE Err("UnknownCodec")

\* HeaderRewriter::parse_codec_headers
parse_codec_headers(identification, comment) ==
    LET with_comment(codec, id_header, comment_header) ==
            IF comment_header.err # "none" THEN comment_header
            ELSE Ok([codec |-> codec, id |-> id_header, comment |-> comment_header.val])
        try_vorbis(vorbis_header) ==
            IF vorbis_header.err # "none" THEN vorbis_header
            ELSE IF vorbis_header.val[1] = "some"
                 THEN with_comment("Vorbis", vorbis_header.val[2],
                                   CommentTryParse("Vorbis", comment))
            ELSE Err("UnknownCodec")
        try_opus(opus_header) ==
            IF opus_header.err # "none" THEN opus_header
            ELSE IF opus_header.val[1] = "some"
                 THEN with_comment("Opus", opus_header.val[2],
                                   CommentTryParse("Opus", comment))
            ELSE try_vorbis(VorbisIdTryParse(identification))
    IN  try_opus(OpusIdTryParse(identification))

\* CodecHeaders::serialize_id_header
serialize_id_header(headers) == headers.id

\* variant: the comment header is written with an empty vendor string
serialize_comment_header_without_vendor(headers) ==
    CommentSerialize(headers.codec, [headers.comment EXCEPT !.vendor = << >>])

\* CodecHeaders::serialize_comment_header
serialize_comment_header(headers) == CommentSerialize(headers.codec, headers.comment)

(***************************************************************************)
(* The comment tool's delete matcher (ValueMatch, KeyValueMatch).          *)
(***************************************************************************)
ValueMatchAll == [all |-> TRUE, values |-> {}]

\* ValueMatch::default
ValueMatchDefault == [all |-> FALSE, values |-> {}]

\* ValueMatch::singleton
ValueMatchSingleton(value) == [all |-> FALSE, values |-> {value}]

\* ValueMatch::matches
ValueMatches(vm, value) == vm.all \/ value \in vm.values

\* variant: the right-hand side replaces what was there
BitOrAssignLast(lhs, rhs) == rhs

\* impl BitOrAssign for ValueMatch
BitOrAssign(lhs, rhs) ==
    IF ~lhs.all /\ ~rhs.all
    THEN [all |-> FALSE, values |-> lhs.values \cup rhs.values]
    ELSE ValueMatchAll

\* KeyValueMatch::default: no keys
KeyValueMatchDefault == [k \in {} |-> ValueMatchDefault]

\* KeyValueMatch::add
KeyValueMatchAdd(kvm, key, value) ==
    LET k == UpperStr(key)
        old == IF k \in DOMAIN kvm THEN kvm[k] ELSE ValueMatchDefault
    IN  [x \in (DOMAIN kvm) \cup {k} |-> IF x = k THEN BitOrAssign(old, value) ELSE kvm[x]]

\* KeyValueMatch::matches
KeyValueMatches(kvm, key, value) ==
    LET k == UpperStr(key) IN
    k \in DOMAIN kvm /\ ValueMatches(kvm[k], value)

\* parse_delete_comment_args (escaped = false); patterns are valid
\* NAME or NAME=VALUE strings
RECURSIVE parse_delete_comment_args(_, _)
parse_delete_comment_args(patterns, acc) ==
    LET add(kv) ==
            parse_delete_comment_args(
                SubSeq(patterns, 2, Len(patterns)),
                KeyValueMatchAdd(acc,
                                 IF kv.err = "none" THEN kv.val[1] ELSE patterns[1],
                                 IF kv.err = "none" THEN ValueMatchSingleton(kv.val[2])
                                 ELSE ValueMatchAll))
    IN  IF Len(patterns) = 0 THEN acc
        ELSE add(parse_comment(patterns[1]))

(***************************************************************************)
(* CommentHeaderRewrite and CommentHeaderSummary (comment_rewrite.rs).     *)
(* An action is [kind, delete, append]: kind NoChange, Replace (append is  *)
(* the replacement list) or Modify (delete is the parsed --delete          *)
(* matcher; retain keeps what it does not match).                          *)
(***************************************************************************)
\* the closure `|k, v| !delete_tags.matches(k, v)` the comment tool passes
\* as `retain`
retain_predicate(delete, k, v) == ~KeyValueMatches(delete, k, v)

\* variant: the mappings the closure rejects are the ones kept
RetainRejected(list, delete) ==
    SelectSeq(list, LAMBDA e : ~retain_predicate(delete, e[1], e[2]))

\* CommentList::retain with that closure: keep the mappings it accepts, in
\* order
Retain(list, delete) ==
    SelectSeq(list, LAMBDA e : retain_predicate(delete, e[1], e[2]))

(***************************************************************************)
(* Volume rewriting (volume_rewrite.rs).  A Decibels value is held as a    *)
(* whole number of 1/512 dB, half a step of the Q7.8 gain format, so that  *)
(* the f64 arithmetic on the values used here is exact.  An Option is      *)
(* <<"none">> or <<"some", v>>.                                            *)
(***************************************************************************)
\* Decibels::from, for a whole number of dB
Decibels(db) == db * 512

R128_LUFS == Decibels(-23)
REPLAY_GAIN_LUFS == Decibels(-18)

\* "R128_TRACK_GAIN", "R128_ALBUM_GAIN"
TAG_TRACK_GAIN == << 82, 49, 50, 56, 95, 84, 82, 65, 67, 75, 95, 71, 65, 73, 78 >>
TAG_ALBUM_GAIN == << 82, 49, 50, 56, 95, 65, 76, 66, 85, 77, 95, 71, 65, 73, 78 >>

\* variant: halves are rounded up
round_half_up(v) == (v + 1) \div 2

\* (value.as_f64() * 256.0).round(): f64::round takes halves away from zero
round(v) == IF v >= 0 THEN (v + 1) \div 2 ELSE -((1 - v) \div 2)

\* variant: the ends of the i16 range are refused too
FixedPointGainTryFromExclusive(v) ==
    LET checked(fixed) ==
            IF fixed <= -32768 \/ fixed >= 32767 THEN Err("GainOutOfBounds")
            ELSE Ok(fixed)
    IN  checked(round(v))

\* FixedPointGain::try_from(Decibels): `fixed as i16` saturates, and the
\* comparison with `fixed` then fails
FixedPointGainTryFrom(v) ==
    LET checked(fixed) ==
            IF fixed < -32768 \/ fixed > 32767 THEN Err("GainOutOfBounds")
            ELSE Ok(fixed)
    IN  checked(round(v))

\* FixedPointGain::as_decibels
as_decibels(gain) == gain * 2

\* variant: the sum wraps around
checked_add_wrapping(a, b) == << "some", ((a + b + 32768) % 65536) - 32768 >>

\* FixedPointGain::checked_add: i16::checked_add of the two values
checked_add(a, b) ==
    IF a + b < -32768 \/ a + b > 32767 THEN << "none" >> ELSE << "some", a + b >>

\* FixedPointGain::checked_neg: i16::checked_neg of the value
checked_neg(a) == IF -a > 32767 THEN << "none" >> ELSE << "some", -a >>

\* format!("{}", gain.as_fixed_point()), as ASCII
RECURSIVE FormatUnsigned(_)
FormatUnsigned(n) ==
    IF n < 10 THEN << 48 + n >> ELSE FormatUnsigned(n \div 10) \o << 48 + (n % 10) >>

FormatI16(n) == IF n < 0 THEN << 45 >> \o FormatUnsigned(-n) ELSE FormatUnsigned(n)

\* variant: the gain is appended, mappings of the tag already there stay
set_tag_to_gain_push(list, tag, gain) == Push(list, tag, FormatI16(gain))

\* CommentList::set_tag_to_gain
set_tag_to_gain(list, tag, gain) == replace(list, tag, FormatI16(gain))

\* VolumeRewriterConfig::volume_for_output_gain_calculation
volume_for_output_gain_calculation(config) ==
    IF config.output_gain_mode = "Album" THEN config.album_volume
    ELSE config.track_volume

\* HeaderRewrite for VolumeHeaderRewrite, which works on `&mut headers`:
\* `headers` is what the caller's headers hold when the call returns, `res`
\* what the call returned.  The output gain is stored before the tag gains
\* are computed.  The `expect` on a missing volume panics
VolumeHeaderRewriteInPlace(config, headers) ==
    LET set_tag(h, tag, gain) ==
            IF h.res.err # "none" THEN h
            ELSE IF gain[1] = "some"
            THEN IF set_tag_to_gain(h.headers.comment.user_comments, tag, gain[2]).err # "none"
                 THEN [headers |-> h.headers,
                       res |-> set_tag_to_gain(h.headers.comment.user_comments, tag, gain[2])]
                 ELSE [headers |->
                           [h.headers EXCEPT !.comment.user_comments =
                               set_tag_to_gain(h.headers.comment.user_comments, tag, gain[2]).val],
                       res |-> Ok(<< >>)]
            ELSE [headers |-> [h.headers EXCEPT !.comment.user_comments = remove_all(@, tag)],
                  res |-> Ok(<< >>)]
        set_tags(stored, track_gain_r128, album_gain_r128) ==
            IF track_gain_r128.err # "none" THEN [headers |-> stored, res |-> track_gain_r128]
            ELSE IF album_gain_r128.err # "none" THEN [headers |-> stored, res |-> album_gain_r128]
            ELSE set_tag(set_tag([headers |-> stored, res |-> Ok(<< >>)],
                                 TAG_TRACK_GAIN, track_gain_r128.val),
                         TAG_ALBUM_GAIN, album_gain_r128.val)
        some(r) == IF r.err # "none" THEN r ELSE Ok(<< "some", r.val >>)
        compute_gain(volume, new_header_gain) ==
            IF volume[1] = "some"
            THEN some(FixedPointGainTryFrom(R128_LUFS - volume[2] - as_decibels(new_header_gain)))
            ELSE Ok(<< "none" >>)
        with_header_gain(new_header_gain) ==
            IF new_header_gain.err # "none" THEN [headers |-> headers, res |-> new_header_gain]
            ELSE set_tags([headers EXCEPT !.id = set_output_gain(headers.id, new_header_gain.val)],
                          compute_gain(config.track_volume, new_header_gain.val),
                          compute_gain(config.album_volume, new_header_gain.val))
        lufs(target_lufs, volume_for_output_gain) ==
            IF volume_for_output_gain[1] = "none"
            THEN Err("panic: Precomputed volume unexpectedly missing")
            ELSE FixedPointGainTryFrom(target_lufs - volume_for_output_gain[2])
    IN  IF headers.codec # "Opus" THEN [headers |-> headers, res |-> Err("UnsupportedCodec")]
        ELSE with_header_gain(
                 IF config.output_gain.kind = "ZeroGain" THEN Ok(0)
                 ELSE IF config.output_gain.kind = "LUFS"
                      THEN lufs(config.output_gain.lufs,
                                volume_for_output_gain_calculation(config))
                 ELSE Ok(OpusOutputGain(headers.id)))

\* the headers a successful VolumeHeaderRewrite::rewrite leaves, or its error
VolumeHeaderRewrite(config, headers) ==
    IF VolumeHeaderRewriteInPlace(config, headers).res.err # "none"
    THEN VolumeHeaderRewriteInPlace(config, headers).res
    ELSE Ok(VolumeHeaderRewriteInPlace(config, headers).headers)

\* HeaderSummarizeGeneric for CommentHeaderSummary
summarize(headers) == headers.comment.user_comments

\* HeaderRewrite::rewrite of the rewriter's parameter: VolumeHeaderRewrite,
\* or HeaderRewriteGeneric for CommentHeaderRewrite
rewrite(action, headers) ==
    LET store(new) ==
            IF new.err # "none" THEN new
            ELSE Ok([headers EXCEPT !.comment.user_comments = new.val])
    IN  IF action.kind = "Volume" THEN VolumeHeaderRewrite(action.config, headers)
        ELSE
        store(IF action.kind = "NoChange" THEN Ok(headers.comment.user_comments)
              ELSE IF action.kind = "Replace" THEN Extend(<< >>, action.append)
              ELSE Extend(Retain(headers.comment.user_comments, action.delete),
                          action.append))

(***************************************************************************)
(* HeaderRewriter (header_rewriter.rs).  A packet is                       *)
(* [serial, gp, lip, lis, data]; what the PacketWriter received is a       *)
(* sequence of [data, serial, info, gp].  The driver is the record         *)
(* [state, header_packet, packet_queue, written].                          *)
(***************************************************************************)
NoPacket == << >>

AwaitingHeader == [name |-> "AwaitingHeader", serial |-> 0]
AwaitingComments(s) == [name |-> "AwaitingComments", serial |-> s]
Forwarding == [name |-> "Forwarding", serial |-> 0]

\* HeaderRewriter::new
NewRewriter ==
    [state |-> AwaitingHeader, header_packet |-> NoPacket,
     packet_queue |-> << >>, written |-> << >>]

\* variant: the end of a page is tested before the end of the stream
packet_write_end_info_page_first(packet) ==
    IF packet.lip THEN "EndPage"
    ELSE IF packet.lis THEN "EndStream"
    ELSE "NormalPacket"

\* HeaderRewriter::packet_write_end_info
packet_write_end_info(packet) ==
    IF packet.lis THEN "EndStream"
    ELSE IF packet.lip THEN "EndPage"
    ELSE "NormalPacket"

\* variant: the packet is written without its granule position
write_packet_without_granule(packet) ==
    [data |-> packet.data, serial |-> packet.serial,
     info |-> packet_write_end_info(packet), gp |-> 0]

\* HeaderRewriter::write_packet: what reaches the PacketWriter
write_packet(packet) ==
    [data |-> packet.data, serial |-> packet.serial,
     info |-> packet_write_end_info(packet), gp |-> packet.gp]

\* variant: only the identification headers are compared
HeadersChangedIdOnly(headers, original_headers) == headers.id # original_headers.id

\* the structural comparison `headers != original_headers`
HeadersChanged(headers, original_headers) == headers # original_headers

\* the loop `while let Some(packet) = packet_queue.pop_front()`; the
\* write numbered failAt fails (0: none does), its packet is already popped
RECURSIVE DrainQueue(_, _)
DrainQueue(drv, failAt) ==
    LET write(packet, popped) ==
            IF failAt = 1
            THEN [drv |-> popped, res |-> [kind |-> "Err", err |-> "WriteError"]]
            ELSE DrainQueue([popped EXCEPT !.written = Append(drv.written, write_packet(packet))],
                            IF failAt = 0 THEN 0 ELSE failAt - 1)
    IN  IF Len(drv.packet_queue) = 0 THEN [drv |-> drv, res |-> [kind |-> "Good"]]
        ELSE write(Head(drv.packet_queue),
                   [drv EXCEPT !.packet_queue = Tail(drv.packet_queue)])

\* HeaderRewriter::submit
submit(drv, action, packet, failAt) ==
    LET queue_headers(taken, id_header_packet, original_headers, headers) ==
            LET summary_before == summarize(original_headers)
                summary_after == summarize(headers)
                changed == HeadersChanged(headers, original_headers)
            IN  [drv |-> [taken EXCEPT
                             !.packet_queue = drv.packet_queue \o
                                << [id_header_packet EXCEPT !.data = serialize_id_header(headers)],
                                   [packet EXCEPT !.data = serialize_comment_header(headers)] >>,
                             !.state = Forwarding],
                 res |-> IF changed
                         THEN [kind |-> "HeadersChanged",
                               from |-> summary_before, to |-> summary_after]
                         ELSE [kind |-> "HeadersUnchanged", summary |-> summary_before]]
        apply_rewrite(taken, id_header_packet, original_headers, rewritten) ==
            IF rewritten.err # "none"
            THEN [drv |-> taken, res |-> [kind |-> "Err", err |-> rewritten.err]]
            ELSE queue_headers(taken, id_header_packet, original_headers, rewritten.val)
        parse_headers(taken, id_header_packet, parsed) ==
            IF parsed.err # "none"
            THEN [drv |-> taken, res |-> [kind |-> "Err", err |-> parsed.err]]
            ELSE apply_rewrite(taken, id_header_packet, parsed.val, rewrite(action, parsed.val))
    IN  IF drv.state.name = "AwaitingHeader"
        THEN DrainQueue([drv EXCEPT !.header_packet = packet,
                                    !.state = AwaitingComments(packet.serial)], failAt)
        ELSE IF drv.state.name = "AwaitingComments" /\ drv.state.serial = packet.serial
        THEN parse_headers([drv EXCEPT !.header_packet = NoPacket], drv.header_packet,
                           parse_codec_headers(drv.header_packet.data, packet.data))
        ELSE DrainQueue([drv EXCEPT !.packet_queue = Append(drv.packet_queue, packet)], failAt)

(***************************************************************************)
(* The packets input files are made of.                                    *)
(***************************************************************************)
\* "v"
VendorV == << 118 >>
\* "A=x", "a=y", "B=z"
CommentAx == << 65, 61, 120 >>
CommentAy == << 97, 61, 121 >>
CommentBz == << 66, 61, 122 >>

\* a length-prefixed comment record
Rec(c) == U32LE(Len(c)) \o c

\* version 1, 2 channels, pre-skip 0, rate 0, output gain 0, mapping family 0
OpusHeadData == OPUS_MAGIC \o << 1, 2, 0, 0, 0, 0, 0, 0, 0, 0, 0 >>

\* vendor "v", comments A=x and a=y, no suffix
OpusTagsData ==
    OPUS_COMMENT_MAGIC \o Rec(VendorV) \o U32LE(2) \o Rec(CommentAx) \o Rec(CommentAy)

\* vendor "v", comment A=x, then two bytes of zero padding
OpusTagsPaddedData ==
    OPUS_COMMENT_MAGIC \o Rec(VendorV) \o U32LE(1) \o Rec(CommentAx) \o << 0, 0 >>

\* a comment count of 1 with no comment behind it
OpusTagsTruncatedData == OPUS_COMMENT_MAGIC \o Rec(VendorV) \o U32LE(1)

\* version 0, 2 channels, 44100 Hz, bitrates 0, blocksizes, framing bit
VorbisIdData ==
    VORBIS_MAGIC \o << 0, 0, 0, 0, 2, 68, 172, 0, 0 >>
                 \o << 0, 0, 0, 0, 0, 0, 0, 0, 0, 0, 0, 0 >> \o << 184, 1 >>

\* vendor "v", comment A=x, framing byte
VorbisTagsData ==
    VORBIS_COMMENT_MAGIC \o Rec(VendorV) \o U32LE(1) \o Rec(CommentAx) \o << 1 >>

AudioData == << 252, 7 >>

Pkt(serial, gp, lip, lis, data) ==
    [serial |-> serial, gp |-> gp, lip |-> lip, lis |-> lis, data |-> data]

\* the packets a read can return; last_in_stream implies last_in_page
PacketPool ==
    { Pkt(1, 0, TRUE, FALSE, OpusHeadData),
      Pkt(1, 0, TRUE, FALSE, OpusTagsData),
      Pkt(1, 0, TRUE, FALSE, OpusTagsPaddedData),
      Pkt(1, 0, TRUE, FALSE, OpusTagsTruncatedData),
      Pkt(1, 0, TRUE, FALSE, VorbisIdData),
      Pkt(1, 0, TRUE, FALSE, VorbisTagsData),
      Pkt(1, 960, FALSE, FALSE, AudioData),
      Pkt(1, 1920, TRUE, TRUE, AudioData),
      Pkt(2, 480, TRUE, FALSE, AudioData) }

(***************************************************************************)
(* Configurations.                                                         *)
(***************************************************************************)
NoChangeAction == [kind |-> "NoChange", delete |-> KeyValueMatchDefault, append |-> << >>]

ReplaceAction(tags) == [kind |-> "Replace", delete |-> KeyValueMatchDefault, append |-> tags]

ModifyAction(patterns, tags) ==
    [kind |-> "Modify",
     delete |-> parse_delete_comment_args(patterns, KeyValueMatchDefault),
     append |-> tags]

\* --replace -t A=x ; --modify ; --modify -d a=y ; --modify -d B -t B=z
MutatingActions ==
    { ReplaceAction(<< << << 65 >>, << 120 >> >> >>),
      ModifyAction(<< >>, << >>),
      ModifyAction(<< CommentAy >>, << >>),
      ModifyAction(<< << 66 >> >>, << << << 66 >>, << 122 >> >> >>) }

ActionsOfMode(mode) ==
    IF mode = "List" THEN { NoChangeAction }
    ELSE { a \in MutatingActions : a.kind = mode }

(***************************************************************************)
(* State.                                                                  *)
(***************************************************************************)
VARIABLES
    tool,            \* which program runs: "driver", "comment" or "gain"
    cfg,             \* the invocation: action, abort_on_unchanged, mode, dry_run, ...
    pc,              \* position of the comment tool / of the rewrite loop
    interrupted,     \* the Ctrl-C flag (Interrupt::is_set)
    submitted,       \* the packets read from the input and submitted, in order
    rewriter,        \* the HeaderRewriter
    submit_result,   \* what the last call of submit returned
    result,          \* the local `result` of rewrite_stream_with_interrupt
    rewrite_result,  \* what rewrite_stream_with_interrupt returned
    output_file,     \* the comment tool's OutputFile
    commit,          \* the comment tool's `commit` flag
    fs,              \* content of the paths "in", "out" and "tags"
    temps,           \* ids of the temporary files that exist on disk
    syscalls,        \* the file operations performed so far, in order
    exit,            \* "running", or how main_impl returned: "ok" / "err"
    gpc,             \* gain tool: position of each file's task
    gfile,           \* gain tool: per file, what is on disk
    gresult,         \* gain tool: per file, the result of rewrite_stream
    rewrite_mutex,   \* gain tool: the task holding rewrite_mutex, 0 if free
    num_processed,   \* gain tool: the num_processed counter
    out_writes,      \* console: StreamWrites of stdout
    err_writes,      \* console: StreamWrites of stderr
    id_generator,    \* console: IdGenerator::next
    issued,          \* console: the operations the task issued, in order
    console,         \* console: the operations replayed on the inner console
    dropped,         \* console: the DelayedConsoleOutput has been dropped
    album_pc,        \* album pass: position of each file's analysis task
    analyzers,       \* album pass: the BTreeMap from path index to analyzer
    album_volume,    \* album pass: what compute_album_volume returned
    the_list,        \* comment list: the DiscreteCommentList under test
    list_call,       \* comment list: the last call, its arguments and result
    hdr_input,       \* comment header: the bytes given to try_parse
    hdr,             \* comment header: the header parsed or being built
    hdr_output,      \* comment header: what into_vec returned
    vol_config,      \* volume rewrite: the VolumeRewriterConfig
    vol_headers,     \* volume rewrite: the headers before and after each run
    vol_result,      \* volume rewrite: what the last run returned
    fn_call,         \* library functions: the last call, its arguments and result
    va,              \* volume analysis: the VolumeAnalyzer
    va_call          \* volume analysis: the last call on it and what it returned

dvars == << pc, interrupted, submitted, rewriter, submit_result, result, rewrite_result >>
tvars == << output_file, commit, fs, temps, syscalls, exit >>
gvars == << gpc, gfile, gresult, rewrite_mutex, num_processed >>
cvars == << out_writes, err_writes, id_generator, issued, console, dropped >>
avars == << album_pc, analyzers, album_volume >>
lvars == << the_list, list_call >>
hvars == << hdr_input, hdr, hdr_output >>
vvars == << vol_config, vol_headers, vol_result >>
xvars == << fn_call, va, va_call >>
pvars == << avars, lvars, hvars, vvars, xvars >>
vars == << tool, cfg, dvars, tvars, gvars, cvars, pvars >>

Files == 1..NumFiles

NoResult == [kind |-> "None"]
GoodResult == [kind |-> "Good"]
ErrResult(e) == [kind |-> "Err", err |-> e]

NoFile == [kind |-> "None", id |-> 0, final |-> "", content |-> ""]
\* OutputFile::new_sink
new_sink == [kind |-> "Sink", id |-> 0, final |-> "", content |-> ""]
TempFile(id, path) == [kind |-> "Temp", id |-> id, final |-> path, content |-> "EMPTY"]

EmptyWrites == [data |-> << >>, operations |-> << >>]

InitDriverVars ==
    /\ interrupted = FALSE
    /\ submitted = << >>
    /\ rewriter = NewRewriter
    /\ submit_result = NoResult
    /\ result = GoodResult
    /\ rewrite_result = NoResult

\* what the input, output and tags paths hold before the run
InitialFs == [in |-> "ORIG_IN", out |-> "ORIG_OUT", tags |-> "ORIG_TAGS"]

InitToolVars ==
    /\ output_file = NoFile
    /\ commit = FALSE
    /\ fs = InitialFs
    /\ temps = {}
    /\ syscalls = << >>
    /\ exit = "running"

InitGainVars ==
    /\ gpc = [f \in Files |-> "idle"]
    /\ gfile = [f \in Files |-> [input |-> "ORIG", backup |-> FALSE, temp |-> FALSE]]
    /\ gresult = [f \in Files |-> NoResult]
    /\ rewrite_mutex = 0
    /\ num_processed = 0

InitConsoleVars ==
    /\ out_writes = EmptyWrites
    /\ err_writes = EmptyWrites
    /\ id_generator = 0
    /\ issued = << >>
    /\ console = << >>
    /\ dropped = FALSE

InitAlbumVars ==
    /\ album_pc = [f \in Files |-> [at |-> "idle", rank |-> 0]]
    /\ analyzers = << >>
    /\ album_volume = NoResult

\* no call made on the list yet
NoCall == [op |-> "none", key |-> << >>, value |-> << >>, before |-> << >>, result |-> "none"]

InitListVars ==
    /\ the_list = << >>
    /\ list_call = NoCall

InitHeaderVars ==
    /\ hdr_input = << >>
    /\ hdr = NoResult
    /\ hdr_output = NoResult

InitVolumeVars ==
    /\ vol_config = NoResult
    /\ vol_headers = << >>
    /\ vol_result = NoResult

\* VolumeAnalyzer::default()
NewAnalyzer ==
    [decode_state |-> << "none" >>, state |-> [name |-> "AwaitingHeader", serial |-> 0],
     windows |-> << >>, track_loudness |-> << >>]

InitExtraVars ==
    /\ fn_call = NoCall
    /\ va = NewAnalyzer
    /\ va_call = NoCall

\* a library call of rewrite_stream_with_interrupt
InitDriver ==
    /\ tool = "driver"
    /\ \E a \in MutatingActions \cup { NoChangeAction }, b \in BOOLEAN :
          cfg = [action |-> a, abort_on_unchanged |-> b, mode |-> "None",
                 dry_run |-> FALSE, output_path |-> "", tags_out |-> FALSE]
    /\ pc = "loop"

\* an invocation of the comment tool; abort_on_unchanged is always true
InitComment ==
    /\ tool = "comment"
    /\ \E mode \in { "List", "Modify", "Replace" } :
       \E a \in ActionsOfMode(mode), dry \in BOOLEAN, path \in { "in", "out" }, t \in BOOLEAN :
          /\ (mode = "List" => path = "in")
          /\ (mode # "List" => ~t)
          /\ cfg = [action |-> a, abort_on_unchanged |-> TRUE, mode |-> mode,
                    dry_run |-> dry, output_path |-> path, tags_out |-> t]
    /\ pc = "start"

\* an invocation of the gain tool
InitGain ==
    /\ tool = "gain"
    /\ \E display_only \in BOOLEAN :
          cfg = [action |-> NoChangeAction, abort_on_unchanged |-> TRUE, mode |-> "None",
                 dry_run |-> display_only, output_path |-> "", tags_out |-> FALSE]
    /\ pc = "gain"

Init ==
    /\ InitDriver \/ InitComment \/ InitGain
    /\ InitDriverVars /\ InitToolVars /\ InitGainVars /\ InitConsoleVars
    /\ InitAlbumVars /\ InitListVars /\ InitHeaderVars /\ InitVolumeVars /\ InitExtraVars

(***************************************************************************)
(* rewrite_stream_with_interrupt: one action per way an iteration of its   *)
(* loop can go.                                                            *)
(***************************************************************************)
Return(r) ==
    /\ rewrite_result' = r
    /\ pc' = "returned"

\* variant: the interrupt that is never set
is_set_never == FALSE

\* Interrupt::is_set for CtrlCChecker
is_set == interrupted

\* the signal handler sets the flag
CtrlC ==
    /\ tool \in { "driver", "comment" }
    /\ pc \in { "start", "loop" }
    /\ ~interrupted
    /\ interrupted' = TRUE
    /\ UNCHANGED << tool, cfg, pc, submitted, rewriter, submit_result, result, rewrite_result,
                    tvars, gvars, cvars, pvars >>

\* interrupt.is_set() at the top of the loop
RewriteInterrupted ==
    /\ pc = "loop"
    /\ is_set
    /\ Return(ErrResult("Interrupted"))
    /\ UNCHANGED << tool, cfg, interrupted, submitted, rewriter, submit_result, result,
                    tvars, gvars, cvars, pvars >>

\* read_packet() gives Err
RewriteReadError ==
    /\ pc = "loop"
    /\ ~is_set
    /\ Return(ErrResult("OggDecode"))
    /\ UNCHANGED << tool, cfg, interrupted, submitted, rewriter, submit_result, result,
                    tvars, gvars, cvars, pvars >>

\* read_packet() gives Ok(None): flush the output and return `result`
RewriteEndOfInput ==
    /\ pc = "loop"
    /\ ~is_set
    /\ \E flushed \in BOOLEAN :
          Return(IF flushed THEN result ELSE ErrResult("WriteError"))
    /\ UNCHANGED << tool, cfg, interrupted, submitted, rewriter, submit_result, result,
                    tvars, gvars, cvars, pvars >>

\* variant: the result of every submit is saved, a Good one too
AfterSubmitSavingGood(r) ==
    IF r.kind \in { "Good", "HeadersChanged" } THEN
        /\ result' = r
        /\ UNCHANGED << pc, rewrite_result >>
    ELSE IF r.kind = "HeadersUnchanged" THEN
        IF cfg.abort_on_unchanged
        THEN Return(r) /\ UNCHANGED result
        ELSE result' = r /\ UNCHANGED << pc, rewrite_result >>
    ELSE Return(r) /\ UNCHANGED result

\* variant: abort_on_unchanged is not consulted
AfterSubmitNoAbort(r) ==
    IF r.kind = "Good" THEN
        /\ UNCHANGED << pc, result, rewrite_result >>
    ELSE IF r.kind \in { "HeadersChanged", "HeadersUnchanged" } THEN
        /\ result' = r
        /\ UNCHANGED << pc, rewrite_result >>
    ELSE Return(r) /\ UNCHANGED result

\* what the loop does with the result of submit
AfterSubmit(r) ==
    IF r.kind = "Good" THEN
        /\ UNCHANGED << pc, result, rewrite_result >>
    ELSE IF r.kind = "HeadersChanged" THEN
        /\ result' = r
        /\ UNCHANGED << pc, rewrite_result >>
    ELSE IF r.kind = "HeadersUnchanged" THEN
        IF cfg.abort_on_unchanged
        THEN Return(r) /\ UNCHANGED result
        ELSE result' = r /\ UNCHANGED << pc, rewrite_result >>
    ELSE Return(r) /\ UNCHANGED result

\* read_packet() gives Ok(Some(packet)): submit it
RewriteSubmit ==
    /\ pc = "loop"
    /\ ~is_set
    /\ Len(submitted) < MaxPackets
    /\ \E packet \in PacketPool, failAt \in 0..3 :
          LET take(s) ==
                  /\ submitted' = Append(submitted, packet)
                  /\ rewriter' = s.drv
                  /\ submit_result' = s.res
                  /\ AfterSubmit(s.res)
          IN  take(submit(rewriter, cfg.action, packet, failAt))
    /\ UNCHANGED << tool, cfg, interrupted, tvars, gvars, cvars, pvars >>

(***************************************************************************)
(* OutputFile (output_file.rs) over a disk [fs, temps, syscalls].  A       *)
(* handle is [kind, id, final, content]; content names what has been       *)
(* written into the temporary.  Removing a temporary the process created   *)
(* itself is taken to succeed.                                             *)
(***************************************************************************)
Sys(op, id, path, ok) == [op |-> op, id |-> id, path |-> path, ok |-> ok]

Disk == [fs |-> fs, temps |-> temps, syscalls |-> syscalls]

NextTempId(d) ==
    Cardinality({ i \in DOMAIN d.syscalls : d.syscalls[i].op = "create_temp" }) + 1

\* dropping a NamedTempFile deletes it
RemoveTemp(d, id) ==
    IF id \in d.temps
    THEN [d EXCEPT !.temps = d.temps \ { id },
                   !.syscalls = Append(d.syscalls, Sys("remove", id, "", TRUE))]
    ELSE d

\* variant: the temporary file is kept when its handle is dropped
DropOutputFileKeeping(d, handle) == d

\* dropping an OutputFile that was neither committed nor aborted
DropOutputFile(d, handle) ==
    IF handle.kind = "Temp" THEN RemoveTemp(d, handle.id) ELSE d

\* OutputFile::new_target (make_sibling_temporary_file)
new_target(d, path, ok) ==
    LET id == NextTempId(d) IN
    IF ok
    THEN [d |-> [d EXCEPT !.temps = d.temps \cup { id },
                          !.syscalls = Append(d.syscalls, Sys("create_temp", id, path, TRUE))],
          err |-> "none", file |-> TempFile(id, path)]
    ELSE [d |-> [d EXCEPT !.syscalls = Append(d.syscalls, Sys("create_temp", id, path, FALSE))],
          err |-> "TempFileOpenError", file |-> NoFile]

\* OutputFile::new_target_or_discard
new_target_or_discard(d, path, discard, ok) ==
    IF discard THEN [d |-> d, err |-> "none", file |-> new_sink]
    ELSE new_target(d, path, ok)

\* OutputFile::abort
abort(d, handle) ==
    IF handle.kind = "Temp" THEN RemoveTemp(d, handle.id) ELSE d

\* the step of a commit that fails ("none": no step does)
CommitFails == { "none", "sync_temp", "persist", "sync_final" }

\* variant: the result of the first sync_all is ignored
commit_file_unchecked_sync(d, handle, fail) ==
    IF handle.kind # "Temp" THEN [d |-> d, err |-> "none"]
    ELSE LET id == handle.id
             synced == [d EXCEPT !.syscalls =
                           Append(d.syscalls, Sys("sync_temp", id, "", fail # "sync_temp"))]
             tried == [synced EXCEPT !.syscalls =
                          Append(synced.syscalls,
                                 Sys("persist", id, handle.final, fail # "persist"))]
         IN  IF fail = "persist"
             THEN [d |-> RemoveTemp(tried, id), err |-> "PersistError"]
             ELSE LET renamed == [tried EXCEPT
                                     !.fs[handle.final] = handle.content,
                                     !.temps = tried.temps \ { id }]
                      final == [renamed EXCEPT !.syscalls =
                                   Append(renamed.syscalls,
                                          Sys("sync_final", id, handle.final,
                                              fail # "sync_final"))]
                  IN  [d |-> final,
                       err |-> IF fail = "sync_final" THEN "WriteError" ELSE "none"]

\* OutputFile::commit
commit_file(d, handle, fail) ==
    IF handle.kind # "Temp" THEN [d |-> d, err |-> "none"]
    ELSE LET id == handle.id
             synced == [d EXCEPT !.syscalls =
                           Append(d.syscalls, Sys("sync_temp", id, "", fail # "sync_temp"))]
         IN  IF fail = "sync_temp"
             THEN [d |-> RemoveTemp(synced, id), err |-> "WriteError"]
             ELSE LET tried == [synced EXCEPT !.syscalls =
                                   Append(synced.syscalls,
                                          Sys("persist", id, handle.final, fail # "persist"))]
                  IN  IF fail = "persist"
                      THEN [d |-> RemoveTemp(tried, id), err |-> "PersistError"]
                      ELSE LET renamed == [tried EXCEPT
                                              !.fs[handle.final] = handle.content,
                                              !.temps = tried.temps \ { id }]
                               final == [renamed EXCEPT !.syscalls =
                                            Append(renamed.syscalls,
                                                   Sys("sync_final", id, handle.final,
                                                       fail # "sync_final"))]
                           IN  [d |-> final,
                                err |-> IF fail = "sync_final" THEN "WriteError" ELSE "none"]

SetDisk(d) ==
    /\ fs' = d.fs
    /\ temps' = d.temps
    /\ syscalls' = d.syscalls

(***************************************************************************)
(* The comment tool: main_impl of bin/zoogcomment.rs.                      *)
(***************************************************************************)
\* main_impl returns Err: its locals are dropped
ExitErr(d, handle) ==
    /\ SetDisk(DropOutputFile(d, handle))
    /\ output_file' = NoFile
    /\ exit' = "err"
    /\ pc' = "done"

\* File::open of the input, then the creation of output_file
OpenOutput ==
    /\ tool = "comment"
    /\ pc = "start"
    /\ \E opened \in BOOLEAN, created \in BOOLEAN :
          IF ~opened
          THEN ExitErr(Disk, output_file)
          ELSE LET r == IF cfg.mode = "List"
                        THEN [d |-> Disk, err |-> "none", file |-> new_sink]
                        ELSE new_target_or_discard(Disk, cfg.output_path, cfg.dry_run, created)
               IN  IF r.err # "none"
                   THEN ExitErr(r.d, output_file)
                   ELSE /\ SetDisk(r.d)
                        /\ output_file' = r.file
                        /\ pc' = "loop"
                        /\ UNCHANGED exit
    /\ UNCHANGED << tool, cfg, interrupted, submitted, rewriter, submit_result, result, rewrite_result,
                    commit, gvars, cvars, pvars >>

\* what the BufWriter left in the output file when the rewrite returned
Written(handle) ==
    IF handle.kind = "Temp" THEN [handle EXCEPT !.content = "REWRITTEN"] ELSE handle

\* HeadersUnchanged in list mode: the comments go to the tags file or stdout
ListFails == { "none", "new_target", "write" } \cup CommitFails

ListComments(fail) ==
    IF cfg.tags_out
    THEN LET t == new_target_or_discard(Disk, "tags", cfg.dry_run, fail # "new_target") IN
         IF t.err # "none" THEN ExitErr(t.d, output_file) /\ UNCHANGED commit
         ELSE IF fail = "write"
         THEN ExitErr(DropOutputFile(t.d, t.file), output_file) /\ UNCHANGED commit
         ELSE LET c == commit_file(t.d, [t.file EXCEPT !.content = "TAGS"], fail) IN
              IF c.err # "none" THEN ExitErr(c.d, output_file) /\ UNCHANGED commit
              ELSE /\ SetDisk(c.d)
                   /\ pc' = "finish"
                   /\ UNCHANGED << output_file, commit, exit >>
    ELSE IF fail = "write"
         THEN ExitErr(Disk, output_file) /\ UNCHANGED commit
         ELSE /\ fail = "none"
              /\ pc' = "finish"
              /\ UNCHANGED << output_file, commit, fs, temps, syscalls, exit >>

\* HeadersUnchanged in modify / replace mode: a fresh output file receives
\* a copy of the input
CopyFails == { "none", "new_target", "rewind", "copy" }

CopyInput(fail) ==
    LET n == new_target(Disk, cfg.output_path, fail # "new_target") IN
    IF n.err # "none" THEN ExitErr(n.d, output_file) /\ UNCHANGED commit
    ELSE LET aborted == abort(n.d, output_file) IN
         IF fail \in { "rewind", "copy" }
         THEN ExitErr(aborted, n.file) /\ UNCHANGED commit
         ELSE /\ fail = "none"
              /\ SetDisk(aborted)
              /\ output_file' = [n.file EXCEPT !.content = "COPY_OF_INPUT"]
              /\ commit' = TRUE
              /\ pc' = "finish"
              /\ UNCHANGED exit

\* variant: only an interrupt is taken for a failure
RewriteFailedOnInterruptOnly(r) == r.kind = "Err" /\ r.err = "Interrupted"

\* the arm `Err(e)` of the match on rewrite_result
RewriteFailed(r) == r.kind = "Err"

\* the match on rewrite_result
HandleResult ==
    /\ tool = "comment"
    /\ pc = "returned"
    /\ IF RewriteFailed(rewrite_result)
       THEN ExitErr(Disk, output_file) /\ UNCHANGED commit
       ELSE IF rewrite_result.kind = "Good"
       THEN /\ pc' = "finish"
            /\ UNCHANGED << output_file, commit, fs, temps, syscalls, exit >>
       ELSE IF rewrite_result.kind = "HeadersUnchanged"
       THEN IF cfg.mode = "List"
            THEN \E fail \in ListFails : ListComments(fail)
            ELSE \E fail \in CopyFails : CopyInput(fail)
       ELSE /\ commit' = TRUE
            /\ output_file' = Written(output_file)
            /\ pc' = "finish"
            /\ UNCHANGED << fs, temps, syscalls, exit >>
    /\ UNCHANGED << tool, cfg, interrupted, submitted, rewriter, submit_result, result, rewrite_result,
                    gvars, cvars, pvars >>

\* output_file.commit() or output_file.abort()
Finish ==
    /\ tool = "comment"
    /\ pc = "finish"
    /\ IF commit
       THEN \E fail \in CommitFails :
               LET c == commit_file(Disk, output_file, fail) IN
               /\ SetDisk(c.d)
               /\ exit' = IF c.err = "none" THEN "ok" ELSE "err"
       ELSE /\ SetDisk(abort(Disk, output_file))
            /\ exit' = "ok"
    /\ output_file' = NoFile
    /\ pc' = "done"
    /\ UNCHANGED << tool, cfg, interrupted, submitted, rewriter, submit_result, result, rewrite_result,
                    commit, gvars, cvars, pvars >>

(***************************************************************************)
(* The gain tool: the per-file task of main_impl in bin/opusgain.rs.       *)
(* Per file, gfile is [input, backup, temp]: what the input path holds     *)
(* ("ORIG", "NEW" or "MISSING"), whether the .zoog-orig backup exists and  *)
(* whether the task's temporary file exists.  cfg.dry_run is display_only. *)
(***************************************************************************)
GainResults == { "Err", "Good", "ChangingGains", "AlreadyNormalized" }

\* the task returns Err: try_for_each starts no further task
SomeTaskFailed == \E f \in Files : gpc[f] = "failed"

GainUnchanged == << tool, cfg, dvars, tvars, cvars, pvars >>

\* the analysis and File::open before the rewrite gate
GainAnalyze(f) ==
    /\ tool = "gain"
    /\ gpc[f] = "idle"
    /\ \E ok \in BOOLEAN :
          gpc' = [gpc EXCEPT ![f] = IF ok THEN "ready" ELSE "failed"]
    /\ UNCHANGED << gfile, gresult, rewrite_mutex, num_processed, GainUnchanged >>

\* a task that try_for_each never starts because another one failed
GainSkip(f) ==
    /\ tool = "gain"
    /\ gpc[f] = "idle"
    /\ SomeTaskFailed
    /\ gpc' = [gpc EXCEPT ![f] = "skipped"]
    /\ UNCHANGED << gfile, gresult, rewrite_mutex, num_processed, GainUnchanged >>

\* rewrite_mutex.lock()
GainLock(f) ==
    /\ tool = "gain"
    /\ gpc[f] = "ready"
    /\ rewrite_mutex = 0
    /\ rewrite_mutex' = f
    /\ gpc' = [gpc EXCEPT ![f] = "locked"]
    /\ UNCHANGED << gfile, gresult, num_processed, GainUnchanged >>

\* the creation of output_file: a sink, or a temporary next to the input
GainCreateOutput(f) ==
    /\ tool = "gain"
    /\ gpc[f] = "locked"
    /\ IF cfg.dry_run
       THEN /\ gpc' = [gpc EXCEPT ![f] = "rewriting"]
            /\ UNCHANGED << gfile, rewrite_mutex >>
       ELSE \E ok \in BOOLEAN :
               IF ok
               THEN /\ gfile' = [gfile EXCEPT ![f].temp = TRUE]
                    /\ gpc' = [gpc EXCEPT ![f] = "rewriting"]
                    /\ UNCHANGED rewrite_mutex
               ELSE /\ gpc' = [gpc EXCEPT ![f] = "failed"]
                    /\ rewrite_mutex' = 0
                    /\ UNCHANGED gfile
    /\ UNCHANGED << gresult, num_processed, GainUnchanged >>

\* rewrite_stream(...) and the count of processed files
GainRewrite(f) ==
    /\ tool = "gain"
    /\ gpc[f] = "rewriting"
    /\ \E r \in GainResults : gresult' = [gresult EXCEPT ![f] = [kind |-> r]]
    /\ num_processed' = num_processed + 1
    /\ gpc' = [gpc EXCEPT ![f] = "rewritten"]
    /\ UNCHANGED << gfile, rewrite_mutex, GainUnchanged >>

\* Err(e): the task returns; output_file and then the guard are dropped
GainRewriteFailed(f) ==
    /\ tool = "gain"
    /\ gpc[f] = "rewritten"
    /\ gresult[f].kind = "Err"
    /\ gfile' = [gfile EXCEPT ![f].temp = FALSE]
    /\ rewrite_mutex' = 0
    /\ gpc' = [gpc EXCEPT ![f] = "failed"]
    /\ UNCHANGED << gresult, num_processed, GainUnchanged >>

\* Good, AlreadyNormalized, or ChangingGains into a sink: messages only,
\* then drop(rewrite_guard)
GainNothingToReplace(f) ==
    /\ tool = "gain"
    /\ gpc[f] = "rewritten"
    /\ \/ gresult[f].kind \in { "Good", "AlreadyNormalized" }
       \/ gresult[f].kind = "ChangingGains" /\ cfg.dry_run
    /\ rewrite_mutex' = 0
    /\ gpc' = [gpc EXCEPT ![f] = "unlocked"]
    /\ UNCHANGED << gfile, gresult, num_processed, GainUnchanged >>

\* the end of the block: output_file is dropped after the guard
GainDropOutput(f) ==
    /\ tool = "gain"
    /\ gpc[f] = "unlocked"
    /\ gfile' = [gfile EXCEPT ![f].temp = FALSE]
    /\ gpc' = [gpc EXCEPT ![f] = "ok"]
    /\ UNCHANGED << gresult, rewrite_mutex, num_processed, GainUnchanged >>

\* ChangingGains: rename_file(&input_path, &backup_path)
GainBackup(f) ==
    /\ tool = "gain"
    /\ gpc[f] = "rewritten"
    /\ gresult[f].kind = "ChangingGains"
    /\ ~cfg.dry_run
    /\ \E ok \in BOOLEAN :
          IF ok
          THEN /\ gfile' = [gfile EXCEPT ![f].input = "MISSING", ![f].backup = TRUE]
               /\ gpc' = [gpc EXCEPT ![f] = "backed_up"]
               /\ UNCHANGED rewrite_mutex
          ELSE /\ gfile' = [gfile EXCEPT ![f].temp = FALSE]
               /\ gpc' = [gpc EXCEPT ![f] = "failed"]
               /\ rewrite_mutex' = 0
    /\ UNCHANGED << gresult, num_processed, GainUnchanged >>

\* output_file.persist_noclobber(&input_path); on failure the PersistError
\* keeps the temporary file
GainPersist(f) ==
    /\ tool = "gain"
    /\ gpc[f] = "backed_up"
    /\ \E ok \in BOOLEAN :
          IF ok
          THEN /\ gfile' = [gfile EXCEPT ![f].input = "NEW", ![f].temp = FALSE]
               /\ gpc' = [gpc EXCEPT ![f] = "persisted"]
               /\ UNCHANGED rewrite_mutex
          ELSE /\ gpc' = [gpc EXCEPT ![f] = "failed"]
               /\ rewrite_mutex' = 0
               /\ UNCHANGED gfile
    /\ UNCHANGED << gresult, num_processed, GainUnchanged >>

\* f.sync_all() on the persisted file
GainSync(f) ==
    /\ tool = "gain"
    /\ gpc[f] = "persisted"
    /\ \E ok \in BOOLEAN :
          IF ok
          THEN /\ gpc' = [gpc EXCEPT ![f] = "synced"]
               /\ UNCHANGED rewrite_mutex
          ELSE /\ gpc' = [gpc EXCEPT ![f] = "failed"]
               /\ rewrite_mutex' = 0
    /\ UNCHANGED << gfile, gresult, num_processed, GainUnchanged >>

\* remove_file_verbose(&backup_path), the messages, drop(rewrite_guard)
GainRemoveBackup(f) ==
    /\ tool = "gain"
    /\ gpc[f] = "synced"
    /\ \E ok \in BOOLEAN :
          gfile' = [gfile EXCEPT ![f].backup = ~ok]
    /\ rewrite_mutex' = 0
    /\ gpc' = [gpc EXCEPT ![f] = "ok"]
    /\ UNCHANGED << gresult, num_processed, GainUnchanged >>

GainTask(f) ==
    \/ GainAnalyze(f)
    \/ GainSkip(f)
    \/ GainLock(f)
    \/ GainCreateOutput(f)
    \/ GainRewrite(f)
    \/ GainRewriteFailed(f)
    \/ GainNothingToReplace(f)
    \/ GainDropOutput(f)
    \/ GainBackup(f)
    \/ GainPersist(f)
    \/ GainSync(f)
    \/ GainRemoveBackup(f)

Next ==
    \/ CtrlC
    \/ RewriteInterrupted
    \/ RewriteReadError
    \/ RewriteEndOfInput
    \/ RewriteSubmit
    \/ OpenOutput
    \/ HandleResult
    \/ Finish
    \/ \E f \in Files : GainTask(f)

Spec == Init /\ [][Next]_vars

(***************************************************************************)
(* DelayedConsoleOutput (console_output.rs): one task's console.  An       *)
(* operation in StreamWrites is <<id, op>> with op [kind, len]; what the   *)
(* task issued and what reaches the inner console are sequences of         *)
(* [stream, kind, bytes].  Writes to the inner console succeed.            *)
(***************************************************************************)
Streams == { "out", "err" }

\* the byte strings a task writes
WriteData == { << 97 >>, << 98, 99 >> }

OpWrite(len) == [kind |-> "Write", len |-> len]
OpFlush == [kind |-> "Flush", len |-> 0]

\* StreamWrites::write
StreamWrite(w, id, data) ==
    [data |-> w.data \o data,
     operations |-> Append(w.operations, << id, OpWrite(Len(data)) >>)]

\* StreamWrites::flush
StreamFlush(w, id) ==
    [w EXCEPT !.operations = Append(w.operations, << id, OpFlush >>)]

Back(q) == q[Len(q)]
PopBack(q) == SubSeq(q, 1, Len(q) - 1)

\* the operation replayed on the inner console
Replayed(stream, op, data, offset) ==
    IF op.kind = "Write"
    THEN [stream |-> stream, kind |-> "Write", bytes |-> SubSeq(data, offset + 1, offset + op.len)]
    ELSE [stream |-> stream, kind |-> "Flush", bytes |-> << >>]

\* the loop of flush_delayed_operations
RECURSIVE flush_delayed_operations(_, _, _, _, _)
flush_delayed_operations(out, err, out_offset, err_offset, acc) ==
    IF Len(out.operations) = 0 /\ Len(err.operations) = 0 THEN acc
    ELSE LET next_is_stdout ==
                 IF Len(out.operations) > 0 /\ Len(err.operations) > 0
                 THEN Back(out.operations)[1] < Back(err.operations)[1]
                 ELSE Len(out.operations) > 0
         IN  IF next_is_stdout
             THEN LET op == Back(out.operations)[2] IN
                  flush_delayed_operations(
                      [out EXCEPT !.operations = PopBack(out.operations)], err,
                      out_offset + op.len, err_offset,
                      Append(acc, Replayed("out", op, out.data, out_offset)))
             ELSE LET op == Back(err.operations)[2] IN
                  flush_delayed_operations(
                      out, [err EXCEPT !.operations = PopBack(err.operations)],
                      out_offset, err_offset + op.len,
                      Append(acc, Replayed("err", op, err.data, err_offset)))

ConsoleUnchanged == << tool, cfg, dvars, tvars, gvars, pvars >>

\* DelayedWriter::write on console.out() or console.err()
ConsoleWrite(stream, data) ==
    /\ tool = "console"
    /\ ~dropped
    /\ Len(issued) < MaxOps
    /\ id_generator' = id_generator + 1
    /\ IF stream = "out"
       THEN /\ out_writes' = StreamWrite(out_writes, id_generator, data)
            /\ UNCHANGED err_writes
       ELSE /\ err_writes' = StreamWrite(err_writes, id_generator, data)
            /\ UNCHANGED out_writes
    /\ issued' = Append(issued, [stream |-> stream, kind |-> "Write", bytes |-> data])
    /\ UNCHANGED << console, dropped, ConsoleUnchanged >>

\* DelayedWriter::flush
ConsoleFlush(stream) ==
    /\ tool = "console"
    /\ ~dropped
    /\ Len(issued) < MaxOps
    /\ id_generator' = id_generator + 1
    /\ IF stream = "out"
       THEN /\ out_writes' = StreamFlush(out_writes, id_generator)
            /\ UNCHANGED err_writes
       ELSE /\ err_writes' = StreamFlush(err_writes, id_generator)
            /\ UNCHANGED out_writes
    /\ issued' = Append(issued, [stream |-> stream, kind |-> "Flush", bytes |-> << >>])
    /\ UNCHANGED << console, dropped, ConsoleUnchanged >>

\* Drop for DelayedConsoleOutput
ConsoleDrop ==
    /\ tool = "console"
    /\ ~dropped
    /\ console' = flush_delayed_operations(out_writes, err_writes, 0, 0, console)
    /\ out_writes' = EmptyWrites
    /\ err_writes' = EmptyWrites
    /\ dropped' = TRUE
    /\ UNCHANGED << id_generator, issued, ConsoleUnchanged >>

InitConsole ==
    /\ tool = "console"
    /\ cfg = [action |-> NoChangeAction, abort_on_unchanged |-> TRUE, mode |-> "None",
              dry_run |-> FALSE, output_path |-> "", tags_out |-> FALSE]
    /\ pc = "console"
    /\ InitDriverVars /\ InitToolVars /\ InitGainVars /\ InitConsoleVars
    /\ InitAlbumVars /\ InitListVars /\ InitHeaderVars /\ InitVolumeVars /\ InitExtraVars

NextConsole ==
    \/ \E stream \in Streams, data \in WriteData : ConsoleWrite(stream, data)
    \/ \E stream \in Streams : ConsoleFlush(stream)
    \/ ConsoleDrop

SpecConsole == InitConsole /\ [][NextConsole]_vars

(***************************************************************************)
(* The album pass of the gain tool: compute_album_volume in                *)
(* bin/opusgain.rs.  cfg.windows[f] is the list of 100 ms window powers    *)
(* the analysis of input file f yields; an analyzer is the record          *)
(* [windows]; the BTreeMap is the sequence of its <<index, analyzer>>      *)
(* entries in key order.                                                   *)
(***************************************************************************)
\* the most windows the analysis of one file yields
MaxWindows == 2

\* the window powers that occur
Powers == { 1, 2 }

WindowLists == UNION { [1..n -> Powers] : n \in 0..MaxWindows }

AlbumIdle == [at |-> "idle", rank |-> 0]

\* variant: a Vec that is pushed to as the workers finish
BTreeMapInsertAtEnd(map, idx, analyzer) == Append(map, << idx, analyzer >>)

\* BTreeMap::insert: the entries stay ordered by key
BTreeMapInsert(map, idx, analyzer) ==
    SelectSeq(map, LAMBDA e : e[1] < idx)
        \o << << idx, analyzer >> >>
        \o SelectSeq(map, LAMBDA e : e[1] > idx)

\* BTreeMap::into_values().collect()
into_values(map) == [i \in 1..Len(map) |-> map[i][2]]

\* VolumeAnalyzer::mean_lufs_across_multiple: the windows handed to
\* gated_mean_to_lufs
RECURSIVE mean_lufs_across_multiple(_)
mean_lufs_across_multiple(list) ==
    IF Len(list) = 0 THEN << >>
    ELSE list[1].windows \o mean_lufs_across_multiple(Tail(list))

\* try_for_each stops handing out items once a closure has returned Err
AlbumTaskFailed == \E f \in Files : album_pc[f].at = "failed"

AlbumUnchanged ==
    << tool, cfg, dvars, tvars, gvars, cvars, lvars, hvars, vvars, xvars >>

\* the closure of try_for_each for the path with index f
AlbumAnalyze(f) ==
    /\ tool = "album"
    /\ album_volume = NoResult
    /\ album_pc[f].at = "idle"
    /\ \E ok \in BOOLEAN :
          IF ok
          THEN /\ analyzers' = BTreeMapInsert(analyzers, f, [windows |-> cfg.windows[f]])
               /\ album_pc' = [album_pc EXCEPT ![f] = [at |-> "done", rank |-> Len(analyzers) + 1]]
          ELSE /\ album_pc' = [album_pc EXCEPT ![f] = [at |-> "failed", rank |-> 0]]
               /\ UNCHANGED analyzers
    /\ UNCHANGED << album_volume, AlbumUnchanged >>

\* an item try_for_each never hands out because another closure failed
AlbumSkip(f) ==
    /\ tool = "album"
    /\ album_volume = NoResult
    /\ album_pc[f].at = "idle"
    /\ AlbumTaskFailed
    /\ album_pc' = [album_pc EXCEPT ![f] = [at |-> "skipped", rank |-> 0]]
    /\ UNCHANGED << analyzers, album_volume, AlbumUnchanged >>

\* the end of try_for_each and the rest of compute_album_volume
AlbumFinish ==
    /\ tool = "album"
    /\ album_volume = NoResult
    /\ \A f \in Files : album_pc[f].at # "idle"
    /\ album_volume' =
          IF AlbumTaskFailed THEN ErrResult("AnalysisError")
          ELSE [kind |-> "Ok",
                windows |-> mean_lufs_across_multiple(into_values(analyzers)),
                tracks |-> { analyzers[i][1] : i \in 1..Len(analyzers) }]
    /\ UNCHANGED << album_pc, analyzers, AlbumUnchanged >>

InitAlbum ==
    /\ tool = "album"
    /\ \E w \in [Files -> WindowLists] : cfg = [windows |-> w]
    /\ pc = "album"
    /\ album_pc = [f \in Files |-> AlbumIdle]
    /\ analyzers = << >>
    /\ album_volume = NoResult
    /\ InitDriverVars /\ InitToolVars /\ InitGainVars /\ InitConsoleVars
    /\ InitListVars /\ InitHeaderVars /\ InitVolumeVars /\ InitExtraVars

NextAlbum ==
    \/ \E f \in Files : AlbumAnalyze(f)
    \/ \E f \in Files : AlbumSkip(f)
    \/ AlbumFinish

SpecAlbum == InitAlbum /\ [][NextAlbum]_vars

(***************************************************************************)
(* DiscreteCommentList (discrete_comment_list.rs): calls on one list.      *)
(* list_call is [op, key, value, before, result].                          *)
(***************************************************************************)
\* the most mappings push is called for
MaxComments == 3

\* "a", "A", "Ab", "aB", and "~", which is no valid field name
ListKeys == { << 97 >>, << 65 >>, << 65, 98 >>, << 97, 66 >>, << 126 >> }

\* "x", "y"
ListValues == { << 120 >>, << 121 >> }

ListUnchanged ==
    << tool, cfg, dvars, tvars, gvars, cvars, avars, hvars, vvars, xvars >>

ListCall(op, key, value, returned) ==
    [op |-> op, key |-> key, value |-> value, before |-> the_list, result |-> returned]

\* list.push(key, value)
ListPush(key, value) ==
    /\ tool = "list"
    /\ Len(the_list) < MaxComments
    /\ LET done(r) ==
               /\ the_list' = IF r.err = "none" THEN r.val ELSE the_list
               /\ list_call' = ListCall("push", key, value, r.err)
       IN  done(Push(the_list, key, value))
    /\ UNCHANGED ListUnchanged

\* list.replace(key, value)
ListReplace(key, value) ==
    /\ tool = "list"
    /\ Len(the_list) < MaxComments \/ \E i \in 1..Len(the_list) : keys_equal(the_list[i][1], key)
    /\ LET done(r) ==
               /\ the_list' = IF r.err = "none" THEN r.val ELSE the_list
               /\ list_call' = ListCall("replace", key, value, r.err)
       IN  done(replace(the_list, key, value))
    /\ UNCHANGED ListUnchanged

\* list.remove_all(key)
ListRemoveAll(key) ==
    /\ tool = "list"
    /\ the_list' = remove_all(the_list, key)
    /\ list_call' = ListCall("remove_all", key, << >>, "none")
    /\ UNCHANGED ListUnchanged

\* list.get_first(key)
ListGetFirst(key) ==
    /\ tool = "list"
    /\ list_call' = ListCall("get_first", key, << >>, get_first(the_list, key))
    /\ UNCHANGED << the_list, ListUnchanged >>

\* CommentList::extend on the list itself: the mappings pushed before the
\* first error stay in the list
RECURSIVE ExtendInPlace(_, _)
ExtendInPlace(list, comments) ==
    IF Len(comments) = 0 THEN [list |-> list, res |-> "none"]
    ELSE IF Push(list, comments[1][1], comments[1][2]).err # "none"
    THEN [list |-> list, res |-> Push(list, comments[1][1], comments[1][2]).err]
    ELSE ExtendInPlace(Push(list, comments[1][1], comments[1][2]).val, Tail(comments))

\* the lists handed to extend, of a=x, Ab=y and the mapping of the key "="
\* to x: none, a=x, the key "=", a=x before the key "=", Ab=y before a=x
ListExtensions ==
    { << >>,
      << << << 97 >>, << 120 >> >> >>,
      << << << 61 >>, << 120 >> >> >>,
      << << << 97 >>, << 120 >> >>, << << 61 >>, << 120 >> >> >>,
      << << << 65, 98 >>, << 121 >> >>, << << 97 >>, << 120 >> >> >> }

\* the --delete arguments behind the closures handed to retain: a; A=x; Ab
\* and a=y
ListDeleteArgs == { << << 97 >> >>, << CommentAx >>, << << 65, 98 >>, CommentAy >> }

\* list.extend(comments)
ListExtend(comments) ==
    /\ tool = "list"
    /\ Len(the_list) + Len(comments) <= MaxComments
    /\ the_list' = ExtendInPlace(the_list, comments).list
    /\ list_call' = ListCall("extend", << >>, comments, ExtendInPlace(the_list, comments).res)
    /\ UNCHANGED ListUnchanged

\* list.retain(|k, v| !delete_tags.matches(k, v))
ListRetain(patterns) ==
    /\ tool = "list"
    /\ the_list' = Retain(the_list, parse_delete_comment_args(patterns, KeyValueMatchDefault))
    /\ list_call' = ListCall("retain", << >>, patterns, "none")
    /\ UNCHANGED ListUnchanged

\* list.clear()
ListClear ==
    /\ tool = "list"
    /\ the_list' = << >>
    /\ list_call' = ListCall("clear", << >>, << >>, "none")
    /\ UNCHANGED ListUnchanged

\* DiscreteCommentList::default()
InitList ==
    /\ tool = "list"
    /\ cfg = [keys |-> ListKeys, values |-> ListValues]
    /\ pc = "list"
    /\ the_list = << >>
    /\ list_call = NoCall
    /\ InitDriverVars /\ InitToolVars /\ InitGainVars /\ InitConsoleVars
    /\ InitAlbumVars /\ InitHeaderVars /\ InitVolumeVars /\ InitExtraVars

NextList ==
    \/ \E key \in ListKeys, value \in ListValues : ListPush(key, value)
    \/ \E key \in ListKeys, value \in ListValues : ListReplace(key, value)
    \/ \E key \in ListKeys : ListRemoveAll(key)
    \/ \E key \in ListKeys : ListGetFirst(key)
    \/ \E comments \in ListExtensions : ListExtend(comments)
    \/ \E patterns \in ListDeleteArgs : ListRetain(patterns)
    \/ ListClear

SpecList == InitList /\ [][NextList]_vars

(***************************************************************************)
(* CommentHeaderGeneric (header/comment_header_generic.rs) on its own:     *)
(* try_parse of given bytes followed by into_vec, and a header built with  *)
(* set_vendor and push, encoded, parsed and encoded again.  cfg is         *)
(* [codec, from]; hdr is the Result of try_parse, or Ok of the header      *)
(* being built.                                                            *)
(***************************************************************************)
\* the most comment records in an input, and the most calls of push
MaxRecords == 2

\* "", "v", and a byte that is no UTF-8
InputVendors == { << >>, VendorV, << 255 >> }

\* "A=x", "a=y", "B=", "=z", "A=x=y", "Ax", "~=x", and "A=" before a byte
\* that is no UTF-8
InputComments ==
    { CommentAx, CommentAy, << 66, 61 >>, << 61, 122 >>,
      << 65, 61, 120, 61, 121 >>, << 65, 120 >>, << 126, 61, 120 >>,
      << 65, 61, 255 >> }

\* what follows the comment records
InputTails == { << >>, << 0, 0 >>, << 1 >>, << 1, 7 >>, << 3 >>, << 2, 1 >> }

RECURSIVE Records(_)
Records(cs) == IF Len(cs) = 0 THEN << >> ELSE Rec(cs[1]) \o Records(Tail(cs))

\* byte strings laid out as a comment header, with a right or wrong magic,
\* a comment count that is right or off by one, and any tail
HeaderInputs ==
    { magic \o Rec(vendor) \o U32LE(n) \o Records(cs) \o tail :
        magic \in { OPUS_COMMENT_MAGIC, VORBIS_COMMENT_MAGIC },
        vendor \in InputVendors,
        cs \in UNION { [1..k -> InputComments] : k \in 0..MaxRecords },
        n \in 0..(MaxRecords + 1),
        tail \in InputTails }

\* "", "v", "e" with an acute accent
BuildVendors == { << >>, VendorV, << 195, 169 >> }

\* "A", "a", "", and "~", which is no valid field name
BuildKeys == { << 65 >>, << 97 >>, << >>, << 126 >> }

\* "", "x", "a=b"
BuildValues == { << >>, << 120 >>, << 97, 61, 98 >> }

\* CommentHeaderGeneric::default()
DefaultHeader == [vendor |-> << >>, user_comments |-> << >>, suffix_data |-> << >>]

HeaderUnchanged ==
    << tool, cfg, interrupted, submitted, rewriter, submit_result, result,
       rewrite_result, tvars, gvars, cvars, avars, lvars, vvars, xvars >>

\* header.set_vendor(vendor)
HeaderSetVendor(vendor) ==
    /\ tool = "header"
    /\ pc = "build"
    /\ hdr' = Ok([hdr.val EXCEPT !.vendor = vendor])
    /\ UNCHANGED << pc, hdr_input, hdr_output, HeaderUnchanged >>

\* header.push(key, value); a rejected key leaves the header as it is
HeaderPush(key, value) ==
    /\ tool = "header"
    /\ pc = "build"
    /\ Len(hdr.val.user_comments) < MaxRecords
    /\ LET done(r) ==
               hdr' = IF r.err = "none"
                      THEN Ok([hdr.val EXCEPT !.user_comments = r.val])
                      ELSE hdr
       IN  done(Push(hdr.val.user_comments, key, value))
    /\ UNCHANGED << pc, hdr_input, hdr_output, HeaderUnchanged >>

\* header.into_vec() of the built header: header_data_original
HeaderBuildIntoVec ==
    /\ tool = "header"
    /\ pc = "build"
    /\ hdr_input' = CommentSerialize(cfg.codec, hdr.val)
    /\ pc' = "input"
    /\ UNCHANGED << hdr, hdr_output, HeaderUnchanged >>

\* CommentHeaderGeneric::try_parse(&data)
HeaderTryParse ==
    /\ tool = "header"
    /\ pc = "input"
    /\ hdr' = CommentTryParse(cfg.codec, hdr_input)
    /\ pc' = "parsed"
    /\ UNCHANGED << hdr_input, hdr_output, HeaderUnchanged >>

\* header.into_vec() of the parsed header
HeaderIntoVec ==
    /\ tool = "header"
    /\ pc = "parsed"
    /\ hdr.err = "none"
    /\ hdr_output' = CommentSerialize(cfg.codec, hdr.val)
    /\ pc' = "done"
    /\ UNCHANGED << hdr, hdr_input, HeaderUnchanged >>

InitHeader ==
    /\ tool = "header"
    /\ \E codec \in { "Opus", "Vorbis" }, from \in { "bytes", "builder" } :
          /\ cfg = [codec |-> codec, from |-> from]
          /\ IF from = "bytes"
             THEN /\ pc = "input"
                  /\ hdr_input \in HeaderInputs
                  /\ hdr = NoResult
             ELSE /\ pc = "build"
                  /\ hdr_input = << >>
                  /\ hdr = Ok(DefaultHeader)
    /\ hdr_output = NoResult
    /\ interrupted = FALSE
    /\ submitted = << >>
    /\ rewriter = NewRewriter
    /\ submit_result = NoResult
    /\ result = GoodResult
    /\ rewrite_result = NoResult
    /\ InitToolVars /\ InitGainVars /\ InitConsoleVars
    /\ InitAlbumVars /\ InitListVars /\ InitVolumeVars /\ InitExtraVars

NextHeader ==
    \/ \E vendor \in BuildVendors : HeaderSetVendor(vendor)
    \/ \E key \in BuildKeys, value \in BuildValues : HeaderPush(key, value)
    \/ HeaderBuildIntoVec
    \/ HeaderTryParse
    \/ HeaderIntoVec

SpecHeader == InitHeader /\ [][NextHeader]_vars

(***************************************************************************)
(* Runs of the volume rewrite on the headers of one file.  vol_config is   *)
(* the VolumeRewriterConfig, vol_headers the identification and comment    *)
(* packets of the file, as first read and after each run, vol_result how   *)
(* the last run's submit of the comment packet ended.                      *)
(***************************************************************************)
\* the most runs on one file
MaxRuns == 2

\* "r128_track_gain", "r128_album_gain"
LowerTrackGain == << 114, 49, 50, 56, 95, 116, 114, 97, 99, 107, 95, 103, 97, 105, 110 >>
LowerAlbumGain == << 114, 49, 50, 56, 95, 97, 108, 98, 117, 109, 95, 103, 97, 105, 110 >>

VolumeTargets ==
    { [kind |-> "ZeroGain", lufs |-> 0], [kind |-> "NoChange", lufs |-> 0],
      [kind |-> "LUFS", lufs |-> R128_LUFS], [kind |-> "LUFS", lufs |-> REPLAY_GAIN_LUFS] }

\* no volume, -30 dB, half a gain step below -18 dB, 110 dB
Volumes ==
    { << "none" >>, << "some", Decibels(-30) >>, << "some", Decibels(-18) - 1 >>,
      << "some", Decibels(110) >> }

VolumeRewriterConfigs ==
    [output_gain : VolumeTargets, output_gain_mode : { "Album", "Track" },
     track_volume : Volumes, album_volume : Volumes]

\* no tags; a track gain of "0"; track and album gains given twice, one
\* of them "abc"; A=x and an album gain of "-12" under a lower-case key
VolumeInputComments ==
    { << >>,
      << << TAG_TRACK_GAIN, << 48 >> >> >>,
      << << TAG_TRACK_GAIN, << 53 >> >>, << LowerTrackGain, << 97, 98, 99 >> >>,
         << TAG_ALBUM_GAIN, << 55 >> >>, << TAG_ALBUM_GAIN, << 56 >> >> >>,
      << << << 65 >>, << 120 >> >>, << LowerAlbumGain, << 45, 49, 50 >> >> >> }

\* Opus files with an output gain of 0 or of -1, and a Vorbis file
VolumeInputHeaders ==
    { [id |-> set_output_gain(OpusHeadData, g),
       comment |-> CommentSerialize("Opus", [vendor |-> VendorV, user_comments |-> cs,
                                             suffix_data |-> << >>])] :
          g \in { 0, -1 }, cs \in VolumeInputComments }
    \cup { [id |-> VorbisIdData, comment |-> VorbisTagsData] }

VolumeUnchanged ==
    << tool, cfg, dvars, tvars, gvars, cvars, avars, lvars, hvars, xvars,
       vol_config >>

\* one run: a HeaderRewriter with VolumeHeaderRewrite is given the
\* identification packet and the comment packet of the file
VolumeRewriteFile ==
    /\ tool = "volume"
    /\ Len(vol_headers) <= MaxRuns
    /\ vol_result.kind # "Err"
    /\ LET action == [kind |-> "Volume", config |-> vol_config]
           finish(s) ==
               /\ vol_result' = IF s.res.kind = "Err" THEN s.res ELSE [kind |-> s.res.kind]
               /\ vol_headers' =
                      IF s.res.kind = "Err" THEN vol_headers
                      ELSE Append(vol_headers, [id |-> s.drv.packet_queue[1].data,
                                                comment |-> s.drv.packet_queue[2].data])
           comments(s, h) ==
               finish(submit(s.drv, action, Pkt(1, 0, FALSE, FALSE, h.comment), 0))
           run(h) ==
               comments(submit(NewRewriter, action, Pkt(1, 0, TRUE, FALSE, h.id), 0), h)
       IN  run(vol_headers[Len(vol_headers)])
    /\ UNCHANGED VolumeUnchanged

InitVolume ==
    /\ tool = "volume"
    /\ cfg = [runs |-> MaxRuns]
    /\ pc = "volume"
    /\ vol_config \in VolumeRewriterConfigs
    /\ \E h \in VolumeInputHeaders : vol_headers = << h >>
    /\ vol_result = NoResult
    /\ InitDriverVars /\ InitToolVars /\ InitGainVars /\ InitConsoleVars
    /\ InitAlbumVars /\ InitListVars /\ InitHeaderVars /\ InitExtraVars

NextVolume == VolumeRewriteFile

SpecVolume == InitVolume /\ [][NextVolume]_vars

(***************************************************************************)
(* Calls of library functions on values: fn_call is [op, args, out], the   *)
(* one call made.                                                          *)
(***************************************************************************)
\* the longest string escape_str is called on
MaxStr == 3

\* '\\'
ESCAPE_CHAR == 92

\* '\0', '\n', '\r', '\\'
ESCAPED_CHARS == { 0, 10, 13, 92 }

\* variant: a backslash is passed through as it is
EscapedNoBackslash(c) ==
    IF c = 0 THEN << ESCAPE_CHAR, 48 >>
    ELSE IF c = 10 THEN << ESCAPE_CHAR, 110 >>
    ELSE IF c = 13 THEN << ESCAPE_CHAR, 114 >>
    ELSE << c >>

\* what EscapingIterator::next yields for one character of the inner
\* iterator: the character, or ESCAPE_CHAR and then the delayed character
Escaped(c) ==
    IF c = 0 THEN << ESCAPE_CHAR, 48 >>
    ELSE IF c = 10 THEN << ESCAPE_CHAR, 110 >>
    ELSE IF c = 13 THEN << ESCAPE_CHAR, 114 >>
    ELSE IF c = 92 THEN << ESCAPE_CHAR, 92 >>
    ELSE << c >>

\* EscapingIterator::new(value.chars()).collect()
RECURSIVE EscapingIterator(_)
EscapingIterator(value) ==
    IF Len(value) = 0 THEN << >>
    ELSE Escaped(value[1]) \o EscapingIterator(Tail(value))

\* escape_str
escape_str(value) ==
    IF \A i \in 1..Len(value) : value[i] \notin ESCAPED_CHARS THEN value
    ELSE EscapingIterator(value)

\* the loop of unescape_str over the characters left, and what follows it
RECURSIVE UnescapeLoop(_, _, _)
UnescapeLoop(value, is_escape, unescaped) ==
    IF Len(value) = 0
    THEN IF is_escape THEN Err("TrailingBackSlash") ELSE Ok(unescaped)
    ELSE IF is_escape
         THEN IF value[1] = 48 THEN UnescapeLoop(Tail(value), FALSE, Append(unescaped, 0))
              ELSE IF value[1] = 110
                   THEN UnescapeLoop(Tail(value), FALSE, Append(unescaped, 10))
              ELSE IF value[1] = 114
                   THEN UnescapeLoop(Tail(value), FALSE, Append(unescaped, 13))
              ELSE IF value[1] = 92
                   THEN UnescapeLoop(Tail(value), FALSE, Append(unescaped, 92))
              ELSE Err("InvalidEscape")
    ELSE IF value[1] = ESCAPE_CHAR THEN UnescapeLoop(Tail(value), TRUE, unescaped)
    ELSE UnescapeLoop(Tail(value), FALSE, Append(unescaped, value[1]))

\* unescape_str
unescape_str(value) ==
    IF \A i \in 1..Len(value) : value[i] # ESCAPE_CHAR THEN Ok(value)
    ELSE UnescapeLoop(value, FALSE, << >>)

\* NUL, line feed, carriage return, '\\', '0', 'n', 'a'
EscapeAlphabet == { 0, 10, 13, 92, 48, 110, 97 }

EscapeInputs == UNION { [1..k -> EscapeAlphabet] : k \in 0..MaxStr }

\* the most --delete arguments of one call
MaxPatterns == 3

\* "A", "a", "B", "A=x", "a=y", "B=z", "A=x=y"
DeletePatterns ==
    { << 65 >>, << 97 >>, << 66 >>, CommentAx, CommentAy, CommentBz,
      << 65, 61, 120, 61, 121 >> }

DeleteArgs == UNION { [1..k -> DeletePatterns] : k \in 0..MaxPatterns }

\* (A, x), (a, y), (B, z), and (~, x), whose key is no valid field name
RewriteEntries ==
    { << << 65 >>, << 120 >> >>, << << 97 >>, << 121 >> >>, << << 66 >>, << 122 >> >>,
      << << 126 >>, << 120 >> >> }

RewriteLists == UNION { [1..k -> RewriteEntries] : k \in 0..MaxRecords }

\* the --delete arguments of the Modify actions: none; a; A=x; B and a=y
RewriteDeleteArgs == { << >>, << << 97 >> >>, << CommentAx >>, << << 66 >>, CommentAy >> }

\* parsed Opus and Vorbis headers: vendor "" or "v", comments with valid
\* keys, and for Opus no tail or the tail 1, 7
RewriteInputs ==
    { [codec |-> h[1], id |-> h[2],
       comment |-> [vendor |-> vendor, user_comments |-> list, suffix_data |-> h[3]]] :
        h \in { << "Opus", OpusHeadData, << >> >>, << "Opus", OpusHeadData, << 1, 7 >> >>,
                << "Vorbis", VorbisIdData, << >> >> },
        vendor \in { << >>, VendorV },
        list \in { l \in RewriteLists : \A i \in 1..Len(l) : l[i][1] # << 126 >> } }

\* every i16
I16 == (-32768)..32767

\* the ends of the i16 range, their neighbours, and values in between
I16Samples == { -32768, -32767, -16385, -16384, -1, 0, 1, 16383, 16384, 32766, 32767 }

CallsUnchanged ==
    << tool, cfg, dvars, tvars, gvars, cvars, avars, lvars, hvars, vvars, va, va_call >>

\* no call has been made yet
CanCall == tool = "calls" /\ fn_call.op = "none"

Call(op, args, out) ==
    /\ fn_call' = [op |-> op, args |-> args, out |-> out]
    /\ UNCHANGED CallsUnchanged

\* FixedPointGain::try_from(FixedPointGain { value }.as_decibels())
CallDecibelConversion ==
    /\ CanCall
    /\ \E value \in I16 :
          Call("decibel_conversion", << value >>,
               FixedPointGainTryFrom(as_decibels(value)))

\* a.checked_add(b)
CallCheckedAdd ==
    /\ CanCall
    /\ \E a \in I16Samples, b \in I16Samples :
          Call("checked_add", << a, b >>, checked_add(a, b))

\* a.checked_neg()
CallCheckedNeg ==
    /\ CanCall
    /\ \E a \in I16 : Call("checked_neg", << a >>, checked_neg(a))

\* unescape_str(&escape_str(value))
CallEscape ==
    /\ CanCall
    /\ \E value \in EscapeInputs :
          Call("escape_str", << value >>,
               [escaped |-> escape_str(value),
                unescaped |-> unescape_str(escape_str(value))])

\* unescape_str(value)
CallUnescape ==
    /\ CanCall
    /\ \E value \in EscapeInputs : Call("unescape_str", << value >>, unescape_str(value))

\* parse_delete_comment_args(patterns, false)
CallParseDelete ==
    /\ CanCall
    /\ \E patterns \in DeleteArgs :
          Call("parse_delete_comment_args", << patterns >>,
               parse_delete_comment_args(patterns, KeyValueMatchDefault))

\* CommentHeaderRewrite::rewrite on parsed headers, for the action NoChange,
\* Replace(tags) or Modify { retain, append } with the comment tool's closure
CallRewrite ==
    /\ CanCall
    /\ \E headers \in RewriteInputs :
          \/ Call("rewrite", << NoChangeAction, headers, << >> >>,
                  rewrite(NoChangeAction, headers))
          \/ \E tags \in RewriteLists :
                Call("rewrite", << ReplaceAction(tags), headers, << >> >>,
                     rewrite(ReplaceAction(tags), headers))
          \/ \E patterns \in RewriteDeleteArgs, tags \in RewriteLists :
                Call("rewrite", << ModifyAction(patterns, tags), headers, patterns >>,
                     rewrite(ModifyAction(patterns, tags), headers))

\* the arguments of the comment tool that take part in a conflict rule; the
\* input file is always given, --escapes and --dry-run conflict with nothing
CliArgNames ==
    { "list", "modify", "replace", "tags", "delete", "tags_in", "tags_out", "output_file" }

\* the conflicts_with attributes of Cli; a conflict is declared on one of the
\* two arguments and holds both ways
CliConflicts ==
    { { "list", "replace" }, { "list", "modify" },
      { "modify", "replace" },
      { "tags", "list" },
      { "delete", "replace" }, { "delete", "list" },
      { "tags_in", "list" },
      { "tags_out", "modify" }, { "tags_out", "replace" },
      { "output_file", "list" } }

\* the match on (cli.list, cli.modify, cli.replace) of main_impl
operation_mode(given) ==
    IF "modify" \notin given /\ "replace" \notin given THEN Ok("List")
    ELSE IF "list" \notin given /\ "modify" \in given /\ "replace" \notin given THEN Ok("Modify")
    ELSE IF "list" \notin given /\ "modify" \notin given /\ "replace" \in given THEN Ok("Replace")
    ELSE Err("SilentExit")

\* Cli::parse_from followed by the mode selection: the parser reports a
\* conflict when both arguments of a conflicting pair are given on the
\* command line; an argument left at its default is not given
CliParse(given) ==
    IF \E pair \in CliConflicts : pair \subseteq given THEN Err("ArgumentConflict")
    ELSE operation_mode(given)

CallCliParse ==
    /\ CanCall
    /\ \E given \in SUBSET CliArgNames : Call("cli_parse", << given >>, CliParse(given))

\* the most set_output_gain calls on one identification header
MaxGains == 2

GainLists == UNION { [1..n -> I16Samples] : n \in 0..MaxGains }

\* identification packets: the stereo OpusHead with gain 0, 0x1234 and
\* -32768, a mono one, one followed by two more bytes, one of 18 bytes, a
\* Vorbis one, one of version 2 and one without channels
IdInputs ==
    { OpusHeadData,
      [OpusHeadData EXCEPT ![17] = 52, ![18] = 18],
      [OpusHeadData EXCEPT ![17] = 0, ![18] = 128],
      [OpusHeadData EXCEPT ![10] = 1],
      OpusHeadData \o << 9, 254 >>,
      SubSeq(OpusHeadData, 1, 18),
      VorbisIdData,
      [OpusHeadData EXCEPT ![9] = 2],
      [OpusHeadData EXCEPT ![10] = 0] }

RECURSIVE SetOutputGains(_, _)
SetOutputGains(data, gains) ==
    IF gains = << >> THEN data
    ELSE SetOutputGains(set_output_gain(data, Head(gains)), Tail(gains))

\* opus::IdHeader::into_vec: the bytes held
OpusIdIntoVec(data) == data

\* IdHeader::try_parse, set_output_gain for each gain, then into_vec
CallSetOutputGain ==
    /\ CanCall
    /\ \E data \in IdInputs, gains \in GainLists :
          Call("set_output_gain", << data, gains >>,
               IF OpusIdTryParse(data).err # "none" \/ OpusIdTryParse(data).val = << "none" >>
               THEN OpusIdTryParse(data)
               ELSE Ok(<< "some", OpusIdIntoVec(SetOutputGains(OpusIdTryParse(data).val[2], gains)) >>))

\* identification packets of Vorbis: version 0 and 1, without channels,
\* with a sample rate of 0, with the framing bit clear, cut to 29 bytes;
\* and 30 bytes that start with neither magic
VorbisIdInputs ==
    { VorbisIdData,
      [VorbisIdData EXCEPT ![8] = 1],
      [VorbisIdData EXCEPT ![12] = 0],
      [VorbisIdData EXCEPT ![13] = 0, ![14] = 0],
      [VorbisIdData EXCEPT ![30] = 0],
      SubSeq(VorbisIdData, 1, 29),
      [i \in 1..30 |-> 0] }

\* second packets: comment headers of both codecs, a truncated Opus one, a
\* Vorbis one without its framing byte, and an audio packet
SecondPackets ==
    { OpusTagsData, OpusTagsTruncatedData, VorbisTagsData,
      SubSeq(VorbisTagsData, 1, Len(VorbisTagsData) - 1), AudioData }

\* HeaderRewriter::parse_codec_headers on the first two packets of a stream
CallParseCodecHeaders ==
    /\ CanCall
    /\ \E identification \in IdInputs \cup VorbisIdInputs, comment \in SecondPackets :
          Call("parse_codec_headers", << identification, comment >>,
               parse_codec_headers(identification, comment))

\* the parsed headers of the files of VolumeInputHeaders
VolumeParsedHeaders ==
    { parse_codec_headers(h.id, h.comment).val : h \in VolumeInputHeaders }

\* VolumeHeaderRewrite::new(config).rewrite(&mut headers)
CallVolumeRewrite ==
    /\ CanCall
    /\ \E config \in VolumeRewriterConfigs, headers \in VolumeParsedHeaders :
          Call("volume_rewrite", << config, headers >>,
               VolumeHeaderRewriteInPlace(config, headers))

\* vorbis::IdHeader::try_parse
CallVorbisIdTryParse ==
    /\ CanCall
    /\ \E data \in VorbisIdInputs \cup IdInputs :
          Call("vorbis_id_try_parse", << data >>, VorbisIdTryParse(data))

InitCalls ==
    /\ tool = "calls"
    /\ cfg = [values |-> "i16"]
    /\ pc = "calls"
    /\ fn_call = NoCall
    /\ va = NewAnalyzer
    /\ va_call = NoCall
    /\ InitDriverVars /\ InitToolVars /\ InitGainVars /\ InitConsoleVars
    /\ InitAlbumVars /\ InitListVars /\ InitHeaderVars /\ InitVolumeVars

NextCalls ==
    \/ CallDecibelConversion
    \/ CallCheckedAdd
    \/ CallCheckedNeg
    \/ CallEscape
    \/ CallUnescape
    \/ CallParseDelete
    \/ CallRewrite
    \/ CallCliParse
    \/ CallSetOutputGain
    \/ CallParseCodecHeaders
    \/ CallVolumeRewrite
    \/ CallVorbisIdTryParse

SpecCalls == InitCalls /\ [][NextCalls]_vars

(***************************************************************************)
(* VolumeAnalyzer (src/src/opus/volume_analyzer.rs): packets of one file   *)
(* after another are submitted, with file_complete between the files.      *)
(* The Opus decoder and the loudness meters are libraries: a decoder for   *)
(* one or two channels at 48 kHz is taken to be built, decoding a packet   *)
(* either fails or yields one window of some power per channel, and a      *)
(* loudness is represented by the windows it is computed from.             *)
(***************************************************************************)
\* the most calls made on one analyzer
MaxCalls == 5

OPUS_DECODE_SAMPLE_RATE == 48000

\* opus::IdHeader::output_sample_rate
output_sample_rate(data) == OPUS_DECODE_SAMPLE_RATE

ErrWith(e, v) == [err |-> e, val |-> v]

Analyzing(s) == [name |-> "Analyzing", serial |-> s]
Done == [name |-> "Done", serial |-> 0]

\* DecodeState::build_decoder
build_decoder(channel_count, sample_rate) ==
    IF channel_count \in { 1, 2 }
    THEN Ok([channels |-> channel_count, sample_rate |-> sample_rate])
    ELSE ErrWith("InvalidChannelCount", << channel_count >>)

\* DecodeState::new: one meter per channel, each the windows pushed so far
DecodeStateNew(channel_count, sample_rate) ==
    IF build_decoder(channel_count, sample_rate).err # "none"
    THEN build_decoder(channel_count, sample_rate)
    ELSE Ok([sample_rate |-> sample_rate,
             decoder |-> build_decoder(channel_count, sample_rate).val,
             meters |-> [c \in 1..channel_count |-> << >>]])

num_channels(ds) == Len(ds.meters)

\* DecodeState::reset_decoder
reset_decoder(ds, channel_count, sample_rate) ==
    IF sample_rate # ds.sample_rate \/ channel_count # num_channels(ds)
    THEN Err("UnexpectedAudioParametersChange")
    ELSE IF build_decoder(channel_count, sample_rate).err # "none"
    THEN build_decoder(channel_count, sample_rate)
    ELSE Ok([ds EXCEPT !.decoder = build_decoder(channel_count, sample_rate).val])

\* DecodeState::push_packet: `decoded` is what decode_float made of the
\* packet, << >> for an error and << p >> for samples of power p
push_packet(ds, decoded) ==
    IF decoded = << >> THEN Err("OpusError")
    ELSE Ok([ds EXCEPT
                !.meters = [c \in 1..Len(ds.meters) |-> Append(ds.meters[c], decoded[1])]])

RECURSIVE ChannelSum(_, _, _)
ChannelSum(meters, c, i) ==
    IF c > Len(meters) THEN 0 ELSE meters[c][i] + ChannelSum(meters, c + 1, i)

\* DecodeState::get_windows: the channels' powers added up, doubled for mono
get_windows(ds) ==
    [i \in 1..Len(ds.meters[1]) |->
        ChannelSum(ds.meters, 1, i) * (IF num_channels(ds) = 1 THEN 2 ELSE 1)]

\* variant: packets of any logical stream are taken
any_stream(serial, packet_serial) == TRUE

\* `if serial == packet_serial` of AwaitingComments and Analyzing
same_stream(serial, packet_serial) == serial = packet_serial

\* VolumeAnalyzer::submit, State::AwaitingHeader
SubmitAwaitingHeader(self, packet) ==
    IF OpusIdTryParse(packet.data).err # "none"
    THEN [va |-> self, res |-> OpusIdTryParse(packet.data)]
    ELSE IF OpusIdTryParse(packet.data).val = << "none" >>
    THEN [va |-> self, res |-> Err("MissingStream")]
    ELSE IF self.decode_state # << "none" >>
    THEN IF reset_decoder(self.decode_state[2], OpusChannels(packet.data),
                          output_sample_rate(packet.data)).err # "none"
         THEN [va |-> self,
               res |-> reset_decoder(self.decode_state[2], OpusChannels(packet.data),
                                     output_sample_rate(packet.data))]
         ELSE [va |-> [self EXCEPT
                          !.decode_state =
                              << "some", reset_decoder(self.decode_state[2],
                                                       OpusChannels(packet.data),
                                                       output_sample_rate(packet.data)).val >>,
                          !.state = AwaitingComments(packet.serial)],
               res |-> Ok(<< >>)]
    ELSE IF DecodeStateNew(OpusChannels(packet.data), output_sample_rate(packet.data)).err # "none"
    THEN [va |-> self,
          res |-> DecodeStateNew(OpusChannels(packet.data), output_sample_rate(packet.data))]
    ELSE [va |-> [self EXCEPT
                     !.decode_state =
                         << "some", DecodeStateNew(OpusChannels(packet.data),
                                                   output_sample_rate(packet.data)).val >>,
                     !.state = AwaitingComments(packet.serial)],
          res |-> Ok(<< >>)]

\* VolumeAnalyzer::submit
VolumeAnalyzerSubmit(self, packet, decoded) ==
    IF self.state.name = "AwaitingHeader" THEN SubmitAwaitingHeader(self, packet)
    ELSE IF self.state.name = "AwaitingComments"
    THEN IF same_stream(self.state.serial, packet.serial)
         THEN IF CommentTryParse("Opus", packet.data).err # "none"
              THEN [va |-> self, res |-> Err(CommentTryParse("Opus", packet.data).err)]
              ELSE [va |-> [self EXCEPT !.state = IF packet.lis THEN Done
                                                  ELSE Analyzing(self.state.serial)],
                    res |-> Ok(<< >>)]
         ELSE [va |-> self, res |-> ErrWith("UnexpectedLogicalStream", << packet.serial >>)]
    ELSE IF self.state.name = "Analyzing"
    THEN IF same_stream(self.state.serial, packet.serial)
         THEN IF push_packet(self.decode_state[2], decoded).err # "none"
              THEN [va |-> self, res |-> push_packet(self.decode_state[2], decoded)]
              ELSE [va |-> [self EXCEPT
                               !.decode_state =
                                   << "some", push_packet(self.decode_state[2], decoded).val >>,
                               !.state = IF packet.lis THEN Done ELSE self.state],
                    res |-> Ok(<< >>)]
         ELSE [va |-> self, res |-> ErrWith("UnexpectedLogicalStream", << packet.serial >>)]
    ELSE [va |-> self, res |-> ErrWith("UnexpectedLogicalStream", << packet.serial >>)]

\* VolumeAnalyzer::file_complete: decode_state is taken, which leaves None
file_complete(self) ==
    IF self.decode_state # << "none" >>
    THEN [self EXCEPT !.decode_state = << "none" >>,
                      !.track_loudness = Append(@, get_windows(self.decode_state[2])),
                      !.windows = @ \o get_windows(self.decode_state[2]),
                      !.state = AwaitingHeader]
    ELSE [self EXCEPT !.state = AwaitingHeader]

\* OpusHead with the given channel count
WithChannels(data, n) == [data EXCEPT ![10] = n]

\* identification headers for one, two and three channels and of Vorbis,
\* a comment header, a truncated one, and an audio packet
AnalyzerData ==
    { WithChannels(OpusHeadData, 1), WithChannels(OpusHeadData, 2),
      WithChannels(OpusHeadData, 3), VorbisIdData, OpusTagsData,
      OpusTagsTruncatedData, AudioData }

AnalyzerPackets ==
    { Pkt(s, 0, TRUE, last, data) : s \in { 1, 2 }, last \in BOOLEAN, data \in AnalyzerData }

\* what decode_float makes of an audio packet
DecodeOutcomes == { << >> } \cup { << p >> : p \in Powers }

\* no call made on the analyzer yet; `serial` is the serial of the
\* identification packet accepted since the last file_complete, `previous`
\* the channel count and sample rate of the file analysed before it
NoAnalyzerCall ==
    [op |-> "none", packet |-> NoPacket, out |-> Ok(<< >>), before |-> NewAnalyzer,
     serial |-> << "none" >>, previous |-> << "none" >>, n |-> 0]

AnalyzerUnchanged ==
    << tool, cfg, dvars, tvars, gvars, cvars, avars, lvars, hvars, vvars, fn_call >>

AcceptedHeader(self, after) ==
    self.state.name = "AwaitingHeader" /\ after.state.name = "AwaitingComments"

AnalyzerSubmit ==
    /\ tool = "analyzer"
    /\ va_call.n < MaxCalls
    /\ \E packet \in AnalyzerPackets, decoded \in DecodeOutcomes :
          /\ va' = VolumeAnalyzerSubmit(va, packet, decoded).va
          /\ va_call' =
                [va_call EXCEPT
                    !.op = "submit", !.packet = packet,
                    !.out = VolumeAnalyzerSubmit(va, packet, decoded).res,
                    !.before = va,
                    !.serial = IF AcceptedHeader(va, VolumeAnalyzerSubmit(va, packet, decoded).va)
                               THEN << "some", packet.serial >> ELSE @,
                    !.n = @ + 1]
    /\ UNCHANGED AnalyzerUnchanged

AnalyzerFileComplete ==
    /\ tool = "analyzer"
    /\ va_call.n < MaxCalls
    /\ va' = file_complete(va)
    /\ va_call' =
          [va_call EXCEPT
              !.op = "file_complete", !.packet = NoPacket, !.out = Ok(<< >>),
              !.before = va,
              !.serial = << "none" >>,
              !.previous = IF va.decode_state # << "none" >>
                           THEN << "some", [channels |-> num_channels(va.decode_state[2]),
                                            sample_rate |-> va.decode_state[2].sample_rate] >>
                           ELSE @,
              !.n = @ + 1]
    /\ UNCHANGED AnalyzerUnchanged

InitAnalyzer ==
    /\ tool = "analyzer"
    /\ cfg = [packets |-> "analyzer"]
    /\ pc = "analyzer"
    /\ InitDriverVars /\ InitToolVars /\ InitGainVars /\ InitConsoleVars
    /\ InitAlbumVars /\ InitListVars /\ InitHeaderVars /\ InitVolumeVars
    /\ fn_call = NoCall
    /\ va = NewAnalyzer
    /\ va_call = NoAnalyzerCall

NextAnalyzer ==
    \/ AnalyzerSubmit
    \/ AnalyzerFileComplete

SpecAnalyzer == InitAnalyzer /\ [][NextAnalyzer]_vars

(***************************************************************************)
(* Properties.                                                             *)
(***************************************************************************)
Last(q) == q[Len(q)]

\* the last packet submitted is the one the driver took for the comment
\* header: the first packet after the first that carries its serial
IsCommentSubmit ==
    /\ Len(submitted) >= 2
    /\ Last(submitted).serial = submitted[1].serial
    /\ \A j \in 2..(Len(submitted) - 1) : submitted[j].serial # submitted[1].serial

\* C1: when submit receives, in AwaitingComments, a packet with the recorded
\* serial and both header packets parse, it returns
\* HeadersChanged{from: summary_before, to: summary_after} if and only if the
\* rewritten headers differ structurally from the parsed ones, and otherwise
\* HeadersUnchanged(summary_before).
C1_SubmitReportsChange ==
    IsCommentSubmit =>
        LET parsed == parse_codec_headers(submitted[1].data, Last(submitted).data) IN
        parsed.err = "none" =>
            LET before == parsed.val
                after == rewrite(cfg.action, before).val
                differ == \/ after.codec # before.codec
                          \/ after.id # before.id
                          \/ after.comment.vendor # before.comment.vendor
                          \/ after.comment.user_comments # before.comment.user_comments
                          \/ after.comment.suffix_data # before.comment.suffix_data
            IN  IF differ
                THEN submit_result = [kind |-> "HeadersChanged",
                                      from |-> before.comment.user_comments,
                                      to |-> after.comment.user_comments]
                ELSE submit_result = [kind |-> "HeadersUnchanged",
                                      summary |-> before.comment.user_comments]

\* a comment header was rewritten into a different one
C1_Witness ==
    /\ IsCommentSubmit
    /\ submit_result.kind = "HeadersChanged"
    /\ submit_result.from # submit_result.to

Serials == { p.serial : p \in PacketPool }

SubmittedOf(s) == SelectSeq(submitted, LAMBDA p : p.serial = s)
WrittenOf(s) == SelectSeq(rewriter.written, LAMBDA w : w.serial = s)

Marking(p) ==
    IF p.lis THEN "EndStream" ELSE IF p.lip THEN "EndPage" ELSE "NormalPacket"

\* C2: for every serial, the packets written for it are, in order, the
\* packets submitted for it, each with the submitted packet's serial,
\* granule position and end-of-page / end-of-stream marking; only the data
\* of the two header packets may differ.
C2_OrderAndMetadataPreserved ==
    \A s \in Serials :
        LET sub == SubmittedOf(s)
            wri == WrittenOf(s)
        IN  /\ Len(wri) <= Len(sub)
            /\ \A i \in 1..Len(wri) :
                  /\ wri[i].serial = sub[i].serial
                  /\ wri[i].gp = sub[i].gp
                  /\ wri[i].info = Marking(sub[i])
                  /\ (wri[i].data # sub[i].data => (s = submitted[1].serial /\ i <= 2))

\* two streams were written, the first one with a rewritten comment header
\* and a packet that ends the stream
C2_Witness ==
    /\ Len(WrittenOf(1)) >= 3
    /\ Len(WrittenOf(2)) >= 1
    /\ WrittenOf(1)[2].data # SubmittedOf(1)[2].data
    /\ WrittenOf(1)[3].info = "EndStream"

HasSyscall(op) == \E i \in DOMAIN syscalls : syscalls[i].op = op

\* C3: when the rewrite returns an error, the caller commits and renames
\* nothing: the comment tool leaves every path as it was before the run and
\* the gain tool leaves the input file in place.
C3_ErrorLeavesFinalPath ==
    /\ (tool = "comment" /\ rewrite_result.kind = "Err") =>
            (fs = InitialFs /\ ~HasSyscall("persist"))
    /\ tool = "gain" =>
            \A f \in Files :
                gresult[f].kind = "Err" => (gfile[f].input = "ORIG" /\ ~gfile[f].backup)

\* the comment tool ended after a write error struck a rewrite into a
\* temporary file
C3_Witness ==
    /\ tool = "comment"
    /\ pc = "done"
    /\ rewrite_result = ErrResult("WriteError")
    /\ rewriter.written # << >>
    /\ HasSyscall("create_temp")

\* C4: a modify or replace invocation of the comment tool with --dry-run
\* never creates a temporary file and renames nothing onto a path, whatever
\* the outcome of the rewrite.
C4_DryRunTouchesNothing ==
    (tool = "comment" /\ cfg.mode \in { "Modify", "Replace" } /\ cfg.dry_run) =>
        /\ ~HasSyscall("create_temp")
        /\ ~HasSyscall("persist")
        /\ temps = {}
        /\ fs = InitialFs

\* C5: commit on a temporary performs sync of the temporary, rename onto the
\* final path, sync of the renamed file, in this order, each step only
\* after the success of the one before; a failed first step leaves the
\* final path unchanged.
C5_CommitOrder ==
    /\ \A i \in DOMAIN syscalls :
          LET c == syscalls[i] IN
          /\ c.op = "persist" =>
                /\ i > 1
                /\ syscalls[i - 1] = Sys("sync_temp", c.id, "", TRUE)
          /\ c.op = "sync_final" =>
                /\ i > 1
                /\ syscalls[i - 1] = Sys("persist", c.id, c.path, TRUE)
          /\ (c.op = "sync_temp" /\ c.ok) =>
                /\ i < Len(syscalls)
                /\ syscalls[i + 1].op = "persist"
                /\ syscalls[i + 1].id = c.id
          /\ (c.op = "persist" /\ c.ok) =>
                /\ i < Len(syscalls)
                /\ syscalls[i + 1].op = "sync_final"
                /\ syscalls[i + 1].id = c.id
          /\ (c.op = "sync_temp" /\ ~c.ok) =>
                \A j \in DOMAIN syscalls :
                    ~(syscalls[j].op = "persist" /\ syscalls[j].id = c.id)
    /\ (\A i \in DOMAIN syscalls : ~(syscalls[i].op = "persist" /\ syscalls[i].ok)) =>
            fs = InitialFs

\* a commit went through its three steps and replaced the output path
C5_Witness ==
    /\ \E i \in DOMAIN syscalls : syscalls[i].op = "sync_final" /\ syscalls[i].ok
    /\ fs[cfg.output_path] = "REWRITTEN"
    /\ exit = "ok"

\* C6: while the gain tool replaces an input file, and after a failure of
\* any step of the replacement, the input path holds the complete original
\* or the complete rewritten file.
C6_InputNeverMissing ==
    tool = "gain" => \A f \in Files : gfile[f].input \in { "ORIG", "NEW" }

C8_InterruptStopsRewrite ==
    /\ [][(pc = "loop" /\ interrupted) =>
              /\ rewrite_result' = ErrResult("Interrupted")
              /\ pc' = "returned"
              /\ submitted' = submitted
              /\ rewriter' = rewriter]_vars
    /\ []((tool = "comment" /\ pc = "done" /\ rewrite_result = ErrResult("Interrupted")) =>
              (temps = {} /\ ~HasSyscall("persist") /\ fs = InitialFs))

\* the comment tool ended on an interrupt that came after packets had been
\* written into a temporary file
C8_Witness ==
    /\ tool = "comment"
    /\ pc = "done"
    /\ rewrite_result = ErrResult("Interrupted")
    /\ rewriter.written # << >>
    /\ HasSyscall("create_temp")

\* C9: with abort_on_unchanged, a submit that returns HeadersUnchanged ends
\* the loop with that result, and once the loop has ended no packet is read
\* or submitted.
C9_AbortOnUnchanged ==
    [][/\ (/\ pc = "loop"
           /\ cfg.abort_on_unchanged
           /\ submitted' # submitted
           /\ submit_result'.kind = "HeadersUnchanged") =>
              (pc' = "returned" /\ rewrite_result' = submit_result')
       /\ (pc # "loop" /\ tool \in { "driver", "comment" }) =>
              (submitted' = submitted /\ rewriter' = rewriter)]_vars

\* the loop returned HeadersUnchanged right after the comment header
C9_Witness ==
    /\ cfg.abort_on_unchanged
    /\ pc = "returned"
    /\ rewrite_result.kind = "HeadersUnchanged"
    /\ IsCommentSubmit

\* C10: on drop, the operations the task issued on stdout and stderr reach
\* the inner console in the order of their ids, that is in the order in
\* which they were issued, each write with exactly its bytes.
C10_ReplayInIssueOrder ==
    dropped => console = issued

\* C11: in the gain tool at most one temporary output file exists at any
\* instant, because every task creates and disposes of its temporary file
\* while it holds rewrite_mutex.
C11_OneTemporaryAtATime ==
    tool = "gain" => Cardinality({ f \in Files : gfile[f].temp }) <= 1

\* C12: in the gain tool the failure of one file's task stops no other
\* task: every other input file's task is still started.
C12_EveryTaskStarted ==
    tool = "gain" => \A f \in Files : gpc[f] # "skipped"

\* the windows of the input files from path index f on, in path order
RECURSIVE WindowsInPathOrder(_)
WindowsInPathOrder(f) ==
    IF f > NumFiles THEN << >>
    ELSE cfg.windows[f] \o WindowsInPathOrder(f + 1)

\* C13: in album mode the windows handed to the loudness computation are
\* those of the input files concatenated in the order of the input paths,
\* whatever the order in which the workers finished.
C13_AlbumWindowsInPathOrder ==
    (tool = "album" /\ album_volume.kind = "Ok") =>
        album_volume.windows = WindowsInPathOrder(1)

\* the worker of the second path finished before the worker of the first
C13_Witness ==
    /\ tool = "album"
    /\ album_volume.kind = "Ok"
    /\ album_pc[2].rank < album_pc[1].rank
    /\ cfg.windows[1] # << >>
    /\ cfg.windows[2] # << >>
    /\ cfg.windows[1] \o cfg.windows[2] # cfg.windows[2] \o cfg.windows[1]

\* equality of two keys up to the case of ASCII letters
EqIgnoreAsciiCase(k1, k2) ==
    /\ Len(k1) = Len(k2)
    /\ \A i \in 1..Len(k1) :
          \/ k1[i] = k2[i]
          \/ k1[i] \in 65..90 /\ k2[i] = k1[i] + 32
          \/ k2[i] \in 65..90 /\ k1[i] = k2[i] + 32

\* the positions of the entries of a list whose key is k up to case
MatchesOf(list, k) == { i \in 1..Len(list) : EqIgnoreAsciiCase(list[i][1], k) }

\* the entries of a list whose key is not k up to case, in order
OthersOf(list, k) == SelectSeq(list, LAMBDA e : ~EqIgnoreAsciiCase(e[1], k))

\* C17: after a successful replace(k, v): if an entry matched k up to case,
\* the first such entry is at its old position with value v and the later
\* ones are gone, otherwise (k, v) is the new last entry; either way exactly
\* one entry matches k, its value is v, and the other entries are the old
\* ones in the old order.
C17_ReplaceKeepsFirst ==
    (tool = "list" /\ list_call.op = "replace" /\ list_call.result = "none") =>
        LET Holds(before, k, v) ==
                /\ Cardinality(MatchesOf(the_list, k)) = 1
                /\ \A i \in MatchesOf(the_list, k) : the_list[i][2] = v
                /\ OthersOf(the_list, k) = OthersOf(before, k)
                /\ IF MatchesOf(before, k) = {}
                   THEN the_list = Append(before, << k, v >>)
                   ELSE /\ \A i \in MatchesOf(the_list, k) :
                              /\ i \in MatchesOf(before, k)
                              /\ \A j \in MatchesOf(before, k) : i <= j
                              /\ the_list[i][1] = before[i][1]
                        /\ Len(the_list) = Len(before) - Cardinality(MatchesOf(before, k)) + 1
        IN  Holds(list_call.before, list_call.key, list_call.value)

\* a replace on a list with several entries of the key in different cases,
\* the first of them behind another entry
C17_Witness ==
    /\ tool = "list"
    /\ list_call.op = "replace"
    /\ list_call.result = "none"
    /\ Cardinality(MatchesOf(list_call.before, list_call.key)) >= 2
    /\ \E i \in MatchesOf(list_call.before, list_call.key) :
          list_call.before[i][1] # list_call.key
    /\ 1 \notin MatchesOf(list_call.before, list_call.key)
    /\ Len(the_list) < Len(list_call.before)

\* C18: get_first(k) returns the value of the earliest entry whose key is k
\* up to ASCII case, or nothing if there is none, and remove_all(k) removes
\* exactly those entries and leaves the others in their order.
C18_LookupIgnoresCase ==
    /\ (tool = "list" /\ list_call.op = "get_first") =>
          LET Holds(k, got) ==
                  IF MatchesOf(the_list, k) = {} THEN got = << "none" >>
                  ELSE \E i \in MatchesOf(the_list, k) :
                          /\ \A j \in MatchesOf(the_list, k) : i <= j
                          /\ got = << "some", the_list[i][2] >>
          IN  Holds(list_call.key, list_call.result)
    /\ (tool = "list" /\ list_call.op = "remove_all") =>
          the_list = OthersOf(list_call.before, list_call.key)

\* a lookup by a key written in another case than the entries, with two
\* such entries of different values behind another entry
C18_Witness ==
    /\ tool = "list"
    /\ list_call.op = "get_first"
    /\ list_call.result # << "none" >>
    /\ Cardinality(MatchesOf(the_list, list_call.key)) >= 2
    /\ 1 \notin MatchesOf(the_list, list_call.key)
    /\ \A i \in MatchesOf(the_list, list_call.key) : the_list[i][1] # list_call.key
    /\ \E i, j \in MatchesOf(the_list, list_call.key) : the_list[i][2] # the_list[j][2]

\* C19 as stated: for every byte sequence the comment-header parser
\* accepts, parsing and serializing returns exactly the same bytes.
C19_ParseSerializeIdentity ==
    (tool = "header" /\ pc = "done") => hdr_output = hdr_input

\* C19 amended: parsing and serializing an accepted byte sequence returns
\* the bytes up to the end of the comments followed, for Opus, by the rest
\* of the input if its first byte has the least significant bit set and by
\* nothing otherwise, and for Vorbis by the single framing byte 1 in place
\* of the accepted framing byte and whatever followed it; the result parses
\* to the same header again.
C19_ParseSerializeKeepsAllButDiscardedTail ==
    (tool = "header" /\ pc = "done") =>
        /\ CommentTryParse(cfg.codec, hdr_output) = hdr
        /\ Len(hdr_output) <= Len(hdr_input)
        /\ IF cfg.codec = "Opus"
           THEN /\ hdr_output = SubSeq(hdr_input, 1, Len(hdr_output))
                /\ Len(hdr_output) < Len(hdr_input) =>
                      /\ hdr_input[Len(hdr_output) + 1] % 2 = 0
                      /\ hdr.val.suffix_data = << >>
           ELSE /\ SubSeq(hdr_output, 1, Len(hdr_output) - 1)
                      = SubSeq(hdr_input, 1, Len(hdr_output) - 1)
                /\ hdr_output[Len(hdr_output)] = FRAMING_BYTE
                /\ hdr_input[Len(hdr_output)] % 2 = 1

\* an accepted Opus header with a vendor, two comments of the same key and
\* an experimental tail, returned byte for byte
C19_Witness ==
    /\ tool = "header"
    /\ cfg = [codec |-> "Opus", from |-> "bytes"]
    /\ pc = "done"
    /\ hdr.val.vendor # << >>
    /\ Len(hdr.val.user_comments) = 2
    /\ keys_equal(hdr.val.user_comments[1][1], hdr.val.user_comments[2][1])
    /\ Len(hdr.val.suffix_data) = 2
    /\ hdr_output = hdr_input

\* C20: the bytes of a header built with set_vendor and push parse
\* successfully, and serializing the parsed header gives the same bytes.
C20_BuiltHeaderRoundTrips ==
    (tool = "header" /\ cfg.from = "builder") =>
        /\ pc \in { "parsed", "done" } => hdr.err = "none"
        /\ pc = "done" => hdr_output = hdr_input

\* a built header with a vendor and two comments of the same key, one with
\* an empty value and one whose value holds the separator
C20_Witness ==
    /\ tool = "header"
    /\ cfg.from = "builder"
    /\ pc = "done"
    /\ hdr.val.vendor # << >>
    /\ Len(hdr.val.user_comments) = 2
    /\ keys_equal(hdr.val.user_comments[1][1], hdr.val.user_comments[2][1])
    /\ hdr.val.user_comments[1][2] = << >>
    /\ FIELD_NAME_TERMINATOR \in { hdr.val.user_comments[2][2][i] :
                                     i \in 1..Len(hdr.val.user_comments[2][2]) }

\* the i16 whose little-endian bytes are lo, hi
SignedLE16(lo, hi) == ((lo + 256 * hi + 32768) % 65536) - 32768

\* the output gain field and the user comments of the file after run n
OutputGainAfter(n) == SignedLE16(vol_headers[n + 1].id[17], vol_headers[n + 1].id[18])
CommentsAfter(n) == CommentTryParse("Opus", vol_headers[n + 1].comment).val.user_comments

\* k is x / 2 rounded to the nearest integer, halves away from zero;
\* with x in 1/512 dB, x / 2 is the value in dB times 256
IsRoundedHalf(k, x) ==
    \/ 2 * k = x
    \/ x % 2 = 1 /\ 2 * k = x + (IF x > 0 THEN 1 ELSE -1)

\* the number a string of decimal digits stands for
RECURSIVE DigitsValue(_)
DigitsValue(t) ==
    IF Len(t) = 0 THEN 0
    ELSE 10 * DigitsValue(SubSeq(t, 1, Len(t) - 1)) + (t[Len(t)] - 48)

\* t is the decimal text of an integer: digits without a leading zero,
\* after a minus sign if it is negative
IsDigits(t) ==
    /\ Len(t) >= 1
    /\ \A i \in 1..Len(t) : t[i] \in 48..57
    /\ Len(t) > 1 => t[1] # 48

IsDecimalText(t) ==
    \/ IsDigits(t)
    \/ Len(t) >= 2 /\ t[1] = 45 /\ IsDigits(Tail(t)) /\ t[2] # 48

DecimalValue(t) == IF t[1] = 45 THEN -DigitsValue(Tail(t)) ELSE DigitsValue(t)

\* after run n the tag has exactly one entry, the decimal text of
\* (-23 - s - og/256) * 256 rounded, if the source volume s is present, and
\* no entry otherwise
TagFollowsVolume(n, tag, s) ==
    IF s[1] = "some"
    THEN /\ Cardinality(MatchesOf(CommentsAfter(n), tag)) = 1
         /\ \A i \in MatchesOf(CommentsAfter(n), tag) :
               /\ IsDecimalText(CommentsAfter(n)[i][2])
               /\ IsRoundedHalf(DecimalValue(CommentsAfter(n)[i][2]),
                                Decibels(-23) - s[2] - 2 * OutputGainAfter(n))
    ELSE MatchesOf(CommentsAfter(n), tag) = { }

\* C14: after a successful Opus volume rewrite with a LUFS target T, the
\* output gain field is round(256 * (T - v)) for the volume v selected for
\* the output gain calculation; R128_TRACK_GAIN and R128_ALBUM_GAIN each
\* have exactly one entry, the decimal text of round((-23 - s - og/256) *
\* 256), if their source volume s is present, and no entry if it is absent.
C14_GainAndTagsFollowVolumes ==
    (tool = "volume" /\ vol_config.output_gain.kind = "LUFS") =>
        \A n \in 1..(Len(vol_headers) - 1) :
            /\ volume_for_output_gain_calculation(vol_config)[1] = "some"
            /\ IsRoundedHalf(OutputGainAfter(n),
                             vol_config.output_gain.lufs
                                 - volume_for_output_gain_calculation(vol_config)[2])
            /\ TagFollowsVolume(n, TAG_TRACK_GAIN, vol_config.track_volume)
            /\ TagFollowsVolume(n, TAG_ALBUM_GAIN, vol_config.album_volume)

\* track volume -30, target -23, track mode, no album volume, on a file
\* with track and album gains given twice: output gain 1792, track gain "0",
\* no album gain
C14_Witness ==
    /\ tool = "volume"
    /\ vol_config = [output_gain |-> [kind |-> "LUFS", lufs |-> Decibels(-23)],
                     output_gain_mode |-> "Track",
                     track_volume |-> << "some", Decibels(-30) >>,
                     album_volume |-> << "none" >>]
    /\ Len(vol_headers) = 2
    /\ Len(CommentsAfter(0)) = 4
    /\ OutputGainAfter(1) = 1792
    /\ CommentsAfter(1) = << << TAG_TRACK_GAIN, << 48 >> >> >>

\* C15 as stated: for a LUFS target the volume used for the output gain
\* calculation is the album volume if the mode is Album and an album volume
\* is present, and otherwise the track volume.
C15_AlbumModeFallsBackToTrackVolume ==
    (tool = "volume" /\ vol_config.output_gain.kind = "LUFS"
        /\ vol_result # NoResult /\ vol_headers[1].id = OpusHeadData) =>
        /\ volume_for_output_gain_calculation(vol_config) =
              IF vol_config.output_gain_mode = "Album"
                     /\ vol_config.album_volume[1] = "some"
              THEN vol_config.album_volume
              ELSE vol_config.track_volume
        /\ vol_config.track_volume[1] = "some" =>
              ~(vol_result.kind = "Err"
                    /\ vol_result.err = "panic: Precomputed volume unexpectedly missing")

\* C16: a second run on the output of a successful run, with the same
\* configuration and volumes, reports HeadersUnchanged and leaves the
\* header packets byte for byte as they were.
C16_SecondRunChangesNothing ==
    tool = "volume" =>
        \A n \in 2..(Len(vol_headers) - 1) :
            /\ vol_result.kind = "HeadersUnchanged"
            /\ vol_headers[n + 1] = vol_headers[n]

\* two runs on a file with an output gain of -1 and track and album gains
\* given twice, one of them malformed; the first run changed the gain and
\* left one entry for each tag
C16_Witness ==
    /\ tool = "volume"
    /\ Len(vol_headers) = 3
    /\ vol_config.output_gain.kind = "LUFS"
    /\ vol_config.track_volume[1] = "some"
    /\ vol_config.album_volume[1] = "some"
    /\ OutputGainAfter(0) = -1
    /\ OutputGainAfter(1) # -1
    /\ Len(CommentsAfter(0)) = 4
    /\ Len(CommentsAfter(1)) = 2
    /\ vol_result.kind = "HeadersUnchanged"

\* what is wrong with one comment record: "utf8" if it is no UTF-8, else
\* "separator" if it holds no '=', else "name" if a character before the
\* first '=' is outside ' '..'}', else "none"
CommentFault(c) ==
    IF ~IsUtf8(c) THEN "utf8"
    ELSE IF \A i \in 1..Len(c) : c[i] # 61 THEN "separator"
    ELSE IF \E i \in 1..Len(c) :
                /\ \A j \in 1..i : c[j] # 61
                /\ (c[i] < 32 \/ c[i] > 125)
         THEN "name"
    ELSE "none"

\* the fault of the first faulty one of the n records of d from 0-based
\* offset off on; "overrun" is a length field or a length beyond the end
RECURSIVE FirstFault(_, _, _)
FirstFault(d, off, n) ==
    IF n = 0 THEN "none"
    ELSE IF off + 4 > Len(d) THEN "overrun"
    ELSE IF off + 4 + U32At(d, off) > Len(d) THEN "overrun"
    ELSE IF CommentFault(SubSeq(d, off + 5, off + 4 + U32At(d, off))) # "none"
         THEN CommentFault(SubSeq(d, off + 5, off + 4 + U32At(d, off)))
    ELSE FirstFault(d, off + 4 + U32At(d, off), n - 1)

\* the first fault of a packet read as a comment header with magic m, up to
\* the end of its comments
HeaderFault(d, m) ==
    IF Len(d) < Len(m) \/ SubSeq(d, 1, Len(m)) # m THEN "magic"
    ELSE IF Len(m) + 4 > Len(d) THEN "overrun"
    ELSE IF Len(m) + 4 + U32At(d, Len(m)) > Len(d) THEN "overrun"
    ELSE IF ~IsUtf8(SubSeq(d, Len(m) + 5, Len(m) + 4 + U32At(d, Len(m)))) THEN "utf8"
    ELSE IF Len(m) + 8 + U32At(d, Len(m)) > Len(d) THEN "overrun"
    ELSE FirstFault(d, Len(m) + 8 + U32At(d, Len(m)),
                    U32At(d, Len(m) + 4 + U32At(d, Len(m))))

\* the offset behind the n records of d that start at offset off
RECURSIVE SkipRecords(_, _, _)
SkipRecords(d, off, n) ==
    IF n = 0 THEN off ELSE SkipRecords(d, off + 4 + U32At(d, off), n - 1)

\* the number of bytes of a faultless comment header up to the end of its
\* last comment
EndOfComments(d, m) ==
    SkipRecords(d, Len(m) + 8 + U32At(d, Len(m)),
                U32At(d, Len(m) + 4 + U32At(d, Len(m))))

\* the bytes of d behind its last comment
AfterComments(d, m) == SubSeq(d, EndOfComments(d, m) + 1, Len(d))

\* C21: parsing an Opus comment header keeps the bytes after the last
\* comment, and serializing emits them verbatim, if and only if the first
\* of them has its least significant bit set; otherwise they are dropped
\* and serializing emits no suffix.
C21_OpusTailKeptIffLowBitSet ==
    (tool = "header" /\ cfg = [codec |-> "Opus", from |-> "bytes"]
        /\ pc \in { "parsed", "done" }
        /\ HeaderFault(hdr_input, OPUS_COMMENT_MAGIC) = "none") =>
        /\ hdr.err = "none"
        /\ hdr.val.suffix_data =
              IF AfterComments(hdr_input, OPUS_COMMENT_MAGIC) # << >>
                     /\ AfterComments(hdr_input, OPUS_COMMENT_MAGIC)[1] % 2 = 1
              THEN AfterComments(hdr_input, OPUS_COMMENT_MAGIC)
              ELSE << >>
        /\ pc = "done" =>
              AfterComments(hdr_output, OPUS_COMMENT_MAGIC) = hdr.val.suffix_data

\* an Opus header with a comment and the tail 1, 7 was parsed and
\* serialized with that tail
C21_Witness ==
    /\ tool = "header"
    /\ cfg = [codec |-> "Opus", from |-> "bytes"]
    /\ pc = "done"
    /\ Len(hdr.val.user_comments) >= 1
    /\ AfterComments(hdr_input, OPUS_COMMENT_MAGIC) = << 1, 7 >>
    /\ AfterComments(hdr_output, OPUS_COMMENT_MAGIC) = << 1, 7 >>

\* C22: parsing a Vorbis comment header fails with MalformedCommentHeader
\* when no byte follows the last comment or that byte's least significant
\* bit is 0 and succeeds when the bit is 1; serializing always writes a
\* single framing byte of value 1.
C22_VorbisFramingByte ==
    (tool = "header" /\ cfg.codec = "Vorbis") =>
        /\ (cfg.from = "bytes" /\ pc \in { "parsed", "done" }
               /\ HeaderFault(hdr_input, VORBIS_COMMENT_MAGIC) = "none") =>
              IF AfterComments(hdr_input, VORBIS_COMMENT_MAGIC) # << >>
                     /\ AfterComments(hdr_input, VORBIS_COMMENT_MAGIC)[1] % 2 = 1
              THEN hdr.err = "none"
              ELSE hdr.err = "MalformedCommentHeader"
        /\ pc = "done" => AfterComments(hdr_output, VORBIS_COMMENT_MAGIC) = << 1 >>
        /\ (cfg.from = "builder" /\ pc # "build") =>
              AfterComments(hdr_input, VORBIS_COMMENT_MAGIC) = << 1 >>

\* a Vorbis header with a comment and the framing byte 3 was parsed, and
\* serialized with the framing byte 1
C22_Witness ==
    /\ tool = "header"
    /\ cfg = [codec |-> "Vorbis", from |-> "bytes"]
    /\ pc = "done"
    /\ Len(hdr.val.user_comments) >= 1
    /\ hdr_input[Len(hdr_input)] = 3
    /\ hdr_output[Len(hdr_output)] = 1
    /\ Len(hdr_output) = Len(hdr_input)

\* a packet was parsed whose first fault is one of the four of C23
ParsedFaultyInput ==
    /\ tool = "header"
    /\ cfg.from = "bytes"
    /\ pc \in { "parsed", "done" }
    /\ HeaderFault(hdr_input, CommentMagic(cfg.codec))
           \in { "utf8", "separator", "name", "overrun" }

\* C23 as stated: a UTF-8 decode failure in the vendor string or in a
\* comment, a comment without '=', a comment with an invalid field name and
\* a length that overruns the packet are each reported as
\* MalformedCommentHeader.
C23_FaultsAreMalformedCommentHeader ==
    ParsedFaultyInput => hdr.err = "MalformedCommentHeader"

\* C23 amended: a UTF-8 decode failure in the vendor string or in a comment
\* is reported as UTF8Error, a comment without '=' as
\* MissingCommentSeparator, a comment with an invalid field name as
\* InvalidOpusCommentFieldName, and a length that overruns the packet as
\* MalformedCommentHeader.
C23_FaultsHaveTheirOwnErrors ==
    ParsedFaultyInput =>
        hdr.err = CASE HeaderFault(hdr_input, CommentMagic(cfg.codec)) = "utf8" ->
                           "UTF8Error"
                    [] HeaderFault(hdr_input, CommentMagic(cfg.codec)) = "separator" ->
                           "MissingCommentSeparator"
                    [] HeaderFault(hdr_input, CommentMagic(cfg.codec)) = "name" ->
                           "InvalidOpusCommentFieldName"
                    [] OTHER -> "MalformedCommentHeader"

\* a packet whose second comment is no UTF-8, behind a sound vendor string
\* and a sound first comment, was refused with UTF8Error
C23_Witness ==
    /\ ParsedFaultyInput
    /\ cfg.codec = "Opus"
    /\ hdr.err = "UTF8Error"
    /\ U32At(hdr_input, 8) = 1
    /\ IsUtf8(SubSeq(hdr_input, 13, 13))
    /\ U32At(hdr_input, 13) = 2
    /\ U32At(hdr_input, 17) = 3
    /\ CommentFault(SubSeq(hdr_input, 22, 24)) = "none"
    /\ CommentFault(SubSeq(hdr_input, 29, 31)) = "utf8"

\* C24: for every i16 value v, converting FixedPointGain(v) to Decibels,
\* v / 256, and converting that back with try_from succeeds and yields v.
C24_DecibelConversionRoundTrips ==
    (tool = "calls" /\ fn_call.op = "decibel_conversion") =>
        /\ fn_call.out.err = "none"
        /\ fn_call.out.val = fn_call.args[1]

\* the lowest i16 value was converted to Decibels and back
C24_Witness ==
    /\ tool = "calls"
    /\ fn_call.op = "decibel_conversion"
    /\ fn_call.args = << -32768 >>
    /\ fn_call.out.val = -32768

\* C25: checked_add(a, b) is None exactly when a + b lies outside the i16
\* range and is the gain a + b otherwise; checked_neg(a) is None exactly
\* when a is i16::MIN and is -a otherwise.
C25_CheckedAddAndNeg ==
    /\ (tool = "calls" /\ fn_call.op = "checked_add") =>
          IF fn_call.args[1] + fn_call.args[2] \in I16
          THEN fn_call.out = << "some", fn_call.args[1] + fn_call.args[2] >>
          ELSE fn_call.out = << "none" >>
    /\ (tool = "calls" /\ fn_call.op = "checked_neg") =>
          IF fn_call.args[1] = -32768
          THEN fn_call.out = << "none" >>
          ELSE fn_call.out = << "some", 0 - fn_call.args[1] >>

\* i16::MAX + 1 overflowed
C25_Witness ==
    /\ tool = "calls"
    /\ fn_call.op = "checked_add"
    /\ fn_call.args = << 32767, 1 >>
    /\ fn_call.out = << "none" >>

\* C26: for every string s, unescape_str(escape_str(s)) succeeds and equals
\* s, and escape_str(s) holds no NUL, line feed or carriage return.
C26_EscapeRoundTrips ==
    (tool = "calls" /\ fn_call.op = "escape_str") =>
        /\ fn_call.out.unescaped = [err |-> "none", val |-> fn_call.args[1]]
        /\ \A i \in 1..Len(fn_call.out.escaped) :
              fn_call.out.escaped[i] \notin { 0, 10, 13 }

\* a backslash, an 'n' and a line feed were escaped as two backslashes, 'n',
\* a backslash and 'n', and restored
C26_Witness ==
    /\ tool = "calls"
    /\ fn_call.op = "escape_str"
    /\ fn_call.args[1] = << 92, 110, 10 >>
    /\ fn_call.out.escaped = << 92, 92, 110, 92, 110 >>
    /\ fn_call.out.unescaped.val = << 92, 110, 10 >>

\* the key of a --delete argument: what stands before its first '=', or
\* all of it
ArgKey(p) ==
    IF \E i \in 1..Len(p) : p[i] = 61
    THEN SubSeq(p, 1, (CHOOSE i \in 1..Len(p) :
                           p[i] = 61 /\ \A j \in 1..(i - 1) : p[j] # 61) - 1)
    ELSE p

\* a --delete argument selects the entry (k, v): its key is k up to case,
\* and it is a bare key or names the value v
ArgSelects(p, k, v) ==
    /\ EqIgnoreAsciiCase(ArgKey(p), k)
    /\ \/ \A i \in 1..Len(p) : p[i] # 61
       \/ p = ArgKey(p) \o << 61 >> \o v

\* the entries the matchers are asked about
ProbeKeys == { << 65 >>, << 97 >>, << 66 >>, << 98 >>, << 67 >> }
ProbeValues == { << >>, << 120 >>, << 121 >>, << 122 >>, << 120, 61, 121 >> }

\* the arguments in every order
Reorderings(args) ==
    { [i \in 1..Len(args) |-> args[f[i]]] :
        f \in { g \in [1..Len(args) -> 1..Len(args)] :
                  \A i, j \in 1..Len(args) : g[i] = g[j] => i = j } }

\* C28: the matcher built from a sequence of --delete arguments matches an
\* entry (key, value) if and only if some argument has the key up to ASCII
\* case and is a bare KEY or a KEY=VALUE with exactly that value; the
\* matcher is the same for every order of the arguments.
C28_DeleteMatcher ==
    (tool = "calls" /\ fn_call.op = "parse_delete_comment_args") =>
        /\ \A k \in ProbeKeys, v \in ProbeValues :
              KeyValueMatches(fn_call.out, k, v)
                  <=> \E i \in 1..Len(fn_call.args[1]) :
                          ArgSelects(fn_call.args[1][i], k, v)
        /\ \A other \in Reorderings(fn_call.args[1]) :
              parse_delete_comment_args(other, KeyValueMatchDefault) = fn_call.out

\* the arguments A=x, a and a=y gave a matcher for every value under A,
\* and B=z one for the value z under B only
C28_Witness ==
    /\ tool = "calls"
    /\ fn_call.op = "parse_delete_comment_args"
    /\ fn_call.args[1] = << CommentAx, << 97 >>, CommentBz >>
    /\ KeyValueMatches(fn_call.out, << 97 >>, << 121 >>)
    /\ KeyValueMatches(fn_call.out, << 98 >>, << 122 >>)
    /\ ~KeyValueMatches(fn_call.out, << 66 >>, << 120 >>)

\* the entries of a list that none of the --delete arguments selects, in
\* order: those the closure given as `retain` answers true for
RetainedOf(list, patterns) ==
    SelectSeq(list, LAMBDA e : \A i \in 1..Len(patterns) : ~ArgSelects(patterns[i], e[1], e[2]))

\* C27: a successful CommentHeaderRewrite leaves the comment list as it is
\* for NoChange, makes it exactly `list` for Replace(list), and for
\* Modify { retain, append } makes it the original entries retain accepts,
\* in their order, followed by `append`; the vendor string, the Opus tail
\* and the identification header stay as they are.
C27_RewriteOfCommentList ==
    (tool = "calls" /\ fn_call.op = "rewrite" /\ fn_call.out.err = "none") =>
        /\ fn_call.out.val.comment.user_comments =
              IF fn_call.args[1].kind = "NoChange"
              THEN fn_call.args[2].comment.user_comments
              ELSE IF fn_call.args[1].kind = "Replace"
                   THEN fn_call.args[1].append
              ELSE RetainedOf(fn_call.args[2].comment.user_comments, fn_call.args[3])
                       \o fn_call.args[1].append
        /\ fn_call.out.val.comment.vendor = fn_call.args[2].comment.vendor
        /\ fn_call.out.val.comment.suffix_data = fn_call.args[2].comment.suffix_data
        /\ fn_call.out.val.id = fn_call.args[2].id
        /\ fn_call.out.val.codec = fn_call.args[2].codec

\* --delete B --delete a=y with the tag B=z on an Opus header with vendor
\* "v", the comments A=x and a=y and the tail 1, 7: A=x stays, B=z follows
C27_Witness ==
    /\ tool = "calls"
    /\ fn_call.op = "rewrite"
    /\ fn_call.args[1].kind = "Modify"
    /\ fn_call.args[3] = << << 66 >>, CommentAy >>
    /\ fn_call.args[1].append = << << << 66 >>, << 122 >> >> >>
    /\ fn_call.args[2].codec = "Opus"
    /\ fn_call.args[2].comment =
          [vendor |-> VendorV,
           user_comments |-> << << << 65 >>, << 120 >> >>, << << 97 >>, << 121 >> >> >>,
           suffix_data |-> << 1, 7 >>]
    /\ fn_call.out.err = "none"
    /\ fn_call.out.val.comment.user_comments =
          << << << 65 >>, << 120 >> >>, << << 66 >>, << 122 >> >> >>

\* the last call was a submit, and it was rejected with
\* UnexpectedLogicalStream carrying the packet's serial, the analyzer left as
\* it was
RejectedAsUnexpectedStream ==
    /\ va_call.out = [err |-> "UnexpectedLogicalStream", val |-> << va_call.packet.serial >>]
    /\ va = va_call.before

\* C29: once an identification packet with serial s has been accepted, a
\* packet submitted before file_complete with another serial, and any
\* packet submitted in state Done, is rejected with UnexpectedLogicalStream
\* carrying the serial of that packet.
C29_OtherStreamsAreRejected ==
    (tool = "analyzer" /\ va_call.op = "submit") =>
        /\ (/\ va_call.before.state.name # "AwaitingHeader"
            /\ va_call.serial # << "none" >>
            /\ va_call.packet.serial # va_call.serial[2]) => RejectedAsUnexpectedStream
        /\ va_call.before.state.name = "Done" => RejectedAsUnexpectedStream

\* the stream with serial 1 was being analysed, one packet of it was
\* decoded, and an audio packet with serial 2 was rejected
C29_Witness ==
    /\ tool = "analyzer"
    /\ va_call.op = "submit"
    /\ va_call.serial = << "some", 1 >>
    /\ va_call.before.state = Analyzing(1)
    /\ Len(va_call.before.decode_state[2].meters[1]) = 1
    /\ va_call.packet.serial = 2
    /\ va_call.packet.data = AudioData
    /\ va_call.out = [err |-> "UnexpectedLogicalStream", val |-> << va_call.packet.serial >>]

\* C30 as stated: after file_complete, an identification header whose
\* channel count or decode sample rate differs from that of the file
\* analysed before makes submit fail with UnexpectedAudioParametersChange.
C30_ParameterChangeIsRejected ==
    (/\ tool = "analyzer"
     /\ va_call.op = "submit"
     /\ va_call.before.state.name = "AwaitingHeader"
     /\ va_call.previous # << "none" >>
     /\ OpusIdTryParse(va_call.packet.data).err = "none"
     /\ OpusIdTryParse(va_call.packet.data).val # << "none" >>
     /\ \/ OpusChannels(va_call.packet.data) # va_call.previous[2].channels
        \/ output_sample_rate(va_call.packet.data) # va_call.previous[2].sample_rate)
        => va_call.out.err = "UnexpectedAudioParametersChange"

\* the invocation runs in list mode: --list is given, or neither --modify
\* nor --replace is
InListMode(given) == "list" \in given \/ ("modify" \notin given /\ "replace" \notin given)

\* C31 as stated: the comment tool rejects every invocation that combines
\* list mode, chosen by --list or by default, with --tag, --delete, an
\* output file or --tags-in, every invocation with more than one of
\* --list, --modify and --replace, --replace with --delete or --tags-out,
\* and --modify with --tags-out.
C31_ConflictingArgumentsAreRejected ==
    (tool = "calls" /\ fn_call.op = "cli_parse") =>
        ((\/ /\ InListMode(fn_call.args[1])
             /\ fn_call.args[1] \cap { "tags", "delete", "output_file", "tags_in" } # { }
          \/ Cardinality(fn_call.args[1] \cap { "list", "modify", "replace" }) > 1
          \/ /\ "replace" \in fn_call.args[1]
             /\ fn_call.args[1] \cap { "delete", "tags_out" } # { }
          \/ { "modify", "tags_out" } \subseteq fn_call.args[1])
            => fn_call.out.err # "none")

\* C32: an Opus identification packet that parses, serialized after zero or
\* more set_output_gain calls, has its length, every byte other than bytes
\* 16 and 17 (counted from 0) is the original byte, and those two hold, as
\* a little-endian i16, the last gain set, or the original gain when none
\* was set.
C32_OnlyTheGainBytesChange ==
    (/\ tool = "calls"
     /\ fn_call.op = "set_output_gain"
     /\ fn_call.out.err = "none"
     /\ fn_call.out.val # << "none" >>) =>
        /\ Len(fn_call.out.val[2]) = Len(fn_call.args[1])
        /\ \A i \in 1..Len(fn_call.args[1]) :
              i \notin { 17, 18 } => fn_call.out.val[2][i] = fn_call.args[1][i]
        /\ SignedLE16(fn_call.out.val[2][17], fn_call.out.val[2][18]) =
              IF fn_call.args[2] = << >>
              THEN SignedLE16(fn_call.args[1][17], fn_call.args[1][18])
              ELSE fn_call.args[2][Len(fn_call.args[2])]
        /\ fn_call.out.val[2][17] \in 0..255
        /\ fn_call.out.val[2][18] \in 0..255

\* the 21-byte header with gain 0 after the gains 16384 and then -16385:
\* bytes 16 and 17 are 0xff and 0xbf
C32_Witness ==
    /\ tool = "calls"
    /\ fn_call.op = "set_output_gain"
    /\ fn_call.args = << OpusHeadData \o << 9, 254 >>, << 16384, -16385 >> >>
    /\ fn_call.out = Ok(<< "some", [OpusHeadData EXCEPT ![17] = 255, ![18] = 191] \o << 9, 254 >> >>)

\* a packet was just submitted to a driver that was in AwaitingComments
SubmitInAwaitingComments ==
    /\ pc = "loop"
    /\ submitted' # submitted
    /\ rewriter.state.name = "AwaitingComments"

\* the packet just submitted
SubmittedPacket == submitted'[Len(submitted')]

\* C33: a packet submitted in AwaitingComments whose serial differs from the
\* recorded one is not parsed as a comment header: it is handed to the
\* writer as it is and Good is returned (unless that write fails), the
\* driver stays in AwaitingComments and keeps the identification packet;
\* the next packet with the recorded serial is the comment header, parsed
\* together with the identification packet held.
C33_OtherStreamIsForwarded ==
    [][/\ (SubmitInAwaitingComments /\ SubmittedPacket.serial # rewriter.state.serial) =>
              /\ rewriter'.state = rewriter.state
              /\ rewriter'.header_packet = rewriter.header_packet
              /\ rewriter'.header_packet = submitted[1]
              /\ rewriter'.packet_queue = << >>
              /\ \/ /\ submit_result' = [kind |-> "Good"]
                    /\ rewriter'.written =
                          Append(rewriter.written,
                                 [data |-> SubmittedPacket.data,
                                  serial |-> SubmittedPacket.serial,
                                  info |-> Marking(SubmittedPacket),
                                  gp |-> SubmittedPacket.gp])
                 \/ /\ submit_result' = [kind |-> "Err", err |-> "WriteError"]
                    /\ rewriter'.written = rewriter.written
       /\ (SubmitInAwaitingComments /\ SubmittedPacket.serial = rewriter.state.serial) =>
              /\ submit_result'.kind # "Good"
              /\ parse_codec_headers(submitted[1].data, SubmittedPacket.data).err # "none" =>
                    submit_result' =
                        [kind |-> "Err",
                         err |-> parse_codec_headers(submitted[1].data, SubmittedPacket.data).err]
              /\ submit_result'.kind \in { "HeadersChanged", "HeadersUnchanged" } =>
                    rewriter'.state = Forwarding]_vars

\* OpusHead of stream 1, then an audio packet of stream 2 that was written
\* while the driver stayed in AwaitingComments, then OpusTags of stream 1,
\* which was parsed as the comment header
C33_Witness ==
    /\ Len(submitted) = 3
    /\ submitted[1] = Pkt(1, 0, TRUE, FALSE, OpusHeadData)
    /\ submitted[2] = Pkt(2, 480, TRUE, FALSE, AudioData)
    /\ submitted[3] = Pkt(1, 0, TRUE, FALSE, OpusTagsData)
    /\ rewriter.written =
          << [data |-> AudioData, serial |-> 2, info |-> "EndPage", gp |-> 480] >>
    /\ rewriter.state = Forwarding
    /\ submit_result.kind = "HeadersChanged"

\* the first n bytes of d are the bytes of magic, and d has at least least bytes
StartsWith(d, magic, least) ==
    /\ Len(d) >= least
    /\ \A i \in 1..Len(magic) : d[i] = magic[i]

\* what an identification packet with a codec's magic gives: the error of
\* the identification header, else the error of the comment header, else
\* the headers of that codec
DetectedAs(codec, id_error, out, id, comment) ==
    IF id_error # "none" THEN out = Err(id_error)
    ELSE IF CommentTryParse(codec, comment).err # "none"
    THEN out = Err(CommentTryParse(codec, comment).err)
    ELSE /\ out.err = "none"
         /\ out.val.codec = codec
         /\ out.val.id = id

ReturnedAtEndOfInput ==
    /\ tool \in { "driver", "comment" }
    /\ pc # "loop"
    /\ rewrite_result.kind \in { "Good", "HeadersChanged", "HeadersUnchanged" }
    /\ ~(cfg.abort_on_unchanged /\ rewrite_result.kind = "HeadersUnchanged")

\* C35 as stated: when rewrite_stream_with_interrupt has read its input to
\* the end without error, every packet read has been written exactly once,
\* the two header packets included when the comment header is the last
\* packet of the input.
C35_EveryPacketIsWritten ==
    ReturnedAtEndOfInput =>
        /\ Len(rewriter.written) = Len(submitted)
        /\ \A s \in Serials : Len(WrittenOf(s)) = Len(SubmittedOf(s))

\* AwaitingHeader, AwaitingComments, Forwarding in the order they are entered
StateRank(s) ==
    IF s.name = "AwaitingHeader" THEN 0 ELSE IF s.name = "AwaitingComments" THEN 1 ELSE 2

\* some packet after the first carries the first packet's serial: both
\* headers of the first stream have been seen
BothHeadersSeen ==
    \E k \in 2..Len(submitted) : submitted[k].serial = submitted[1].serial

\* C36: over the successful submit calls on one driver the state only moves
\* forward through AwaitingHeader, AwaitingComments, Forwarding; the call
\* for the second packet with the first packet's serial returns
\* HeadersChanged or HeadersUnchanged and every other call returns Good; so
\* rewrite_stream returns Good exactly when the input ended before both
\* headers of the first stream were seen.
C36_OneCallReportsTheHeaders ==
    /\ [][/\ StateRank(rewriter'.state) >= StateRank(rewriter.state)
          /\ (pc = "loop" /\ submitted' # submitted /\ submit_result'.kind # "Err") =>
                /\ StateRank(rewriter'.state) <= StateRank(rewriter.state) + 1
                /\ (submit_result'.kind \in { "HeadersChanged", "HeadersUnchanged" }) <=>
                      (/\ Len(submitted) >= 1
                       /\ SubmittedPacket.serial = submitted[1].serial
                       /\ ~BothHeadersSeen)
                /\ submit_result'.kind \in { "Good", "HeadersChanged", "HeadersUnchanged" }]_vars
    /\ []((/\ tool \in { "driver", "comment" }
           /\ pc # "loop"
           /\ rewrite_result.kind \in { "Good", "HeadersChanged", "HeadersUnchanged" }) =>
              (rewrite_result.kind = "Good" <=> ~BothHeadersSeen))

\* four packets were submitted: the second one was reported as changed
\* headers, the two after it returned Good, and the loop returned
\* HeadersChanged at the end of the input
C36_Witness ==
    /\ pc = "returned"
    /\ Len(submitted) = 4
    /\ submitted[2].serial = submitted[1].serial
    /\ rewrite_result.kind = "HeadersChanged"
    /\ submit_result.kind = "Good"
    /\ rewriter.state = Forwarding
    /\ Len(rewriter.written) = 4

\* where the second packet of the first stream is in the input
CommentIndex ==
    CHOOSE k \in 2..Len(submitted) :
        /\ submitted[k].serial = submitted[1].serial
        /\ \A j \in 2..(k - 1) : submitted[j].serial # submitted[1].serial

\* the positions in what the writer received that hold packets of the
\* first stream
FirstStreamWrites ==
    { i \in 1..Len(rewriter.written) : rewriter.written[i].serial = submitted[1].serial }

\* the headers of the first stream after the rewrite
RewrittenHeaders ==
    rewrite(cfg.action, parse_codec_headers(submitted[1].data, submitted[CommentIndex].data).val)

\* C37: the writer gets the identification packet of the first stream only
\* after both headers were parsed and the rewrite succeeded, in its
\* re-serialized form, and the re-serialized comment packet is what is
\* written next; if parsing or the rewrite fails, neither header packet is
\* ever written.
C37_HeadersAreWrittenTogether ==
    (tool \in { "driver", "comment" } /\ FirstStreamWrites # { }) =>
        LET first == CHOOSE i \in FirstStreamWrites : \A j \in FirstStreamWrites : i <= j IN
        /\ BothHeadersSeen
        /\ parse_codec_headers(submitted[1].data, submitted[CommentIndex].data).err = "none"
        /\ RewrittenHeaders.err = "none"
        /\ Len(submitted) > CommentIndex
        /\ rewriter.written[first] =
              [data |-> RewrittenHeaders.val.id, serial |-> submitted[1].serial,
               info |-> Marking(submitted[1]), gp |-> submitted[1].gp]
        /\ Len(rewriter.written) > first =>
              rewriter.written[first + 1] =
                  [data |-> CommentSerialize(RewrittenHeaders.val.codec,
                                             RewrittenHeaders.val.comment),
                   serial |-> submitted[1].serial,
                   info |-> Marking(submitted[CommentIndex]),
                   gp |-> submitted[CommentIndex].gp]
        /\ Len(rewriter.written) = first => submit_result = ErrResult("WriteError")

\* a packet of another stream came between the two headers and was written
\* first; the identification packet and the rewritten, longer comment
\* packet were written one after the other when the fourth packet came
C37_Witness ==
    /\ Len(submitted) = 4
    /\ submitted[2].serial # submitted[1].serial
    /\ submitted[3].serial = submitted[1].serial
    /\ Len(rewriter.written) = 4
    /\ rewriter.written[1].serial = submitted[2].serial
    /\ rewriter.written[2].data = submitted[1].data
    /\ rewriter.written[3].serial = submitted[1].serial
    /\ Len(rewriter.written[3].data) > Len(submitted[3].data)

\* C38 as stated: when VolumeHeaderRewrite::rewrite fails with
\* GainOutOfBounds, the headers passed to it are as they were before the
\* call, the output gain field and the comments alike.
C38_FailedRewriteLeavesHeaders ==
    (/\ tool = "calls"
     /\ fn_call.op = "volume_rewrite"
     /\ fn_call.out.res.err = "GainOutOfBounds") =>
        fn_call.out.headers = fn_call.args[2]

\* C39 as stated: parsing a Vorbis identification packet that has the
\* Vorbis magic, at least 30 bytes and version 0 fails with
\* MalformedIdentificationHeader whenever its channel count is 0 or its
\* sample rate is 0.
C39_VorbisFieldsAreValidated ==
    (/\ tool = "calls"
     /\ fn_call.op = "vorbis_id_try_parse"
     /\ StartsWith(fn_call.args[1], << 1, 118, 111, 114, 98, 105, 115 >>, 30)
     /\ SubSeq(fn_call.args[1], 8, 11) = << 0, 0, 0, 0 >>
     /\ \/ fn_call.args[1][12] = 0
        \/ SubSeq(fn_call.args[1], 13, 16) = << 0, 0, 0, 0 >>) =>
        fn_call.out = Err("MalformedIdentificationHeader")

\* C40: after any sequence of push, extend, replace, remove_all, retain and
\* clear on a comment list, every key consists of characters ' '..='<' and
\* '>'..='}' only, so none holds '='; and a push or replace that fails with
\* InvalidOpusCommentFieldName leaves the list as it was.
C40_KeysStayValid ==
    tool = "list" =>
        /\ \A i \in 1..Len(the_list) :
              \A j \in 1..Len(the_list[i][1]) :
                  /\ the_list[i][1][j] \in (32..60) \cup (62..125)
                  /\ the_list[i][1][j] # 61
        /\ (/\ list_call.op \in { "push", "replace" }
            /\ list_call.result = "InvalidOpusCommentFieldName") =>
              the_list = list_call.before

\* replace with the key "~" was refused on a list of two entries
C40_Witness ==
    /\ tool = "list"
    /\ list_call.op = "replace"
    /\ list_call.key = << 126 >>
    /\ list_call.result = "InvalidOpusCommentFieldName"
    /\ Len(list_call.before) = 2
    /\ the_list = list_call.before

====
